---- MODULE Spec2Model ----
(***************************************************************************)
(* Model of the Cypher query validator of k8s_graph_agent                  *)
(* (python/agent/src/k8s_graph_agent/cypher_validator).                    *)
(*                                                                         *)
(* A text is a sequence of one-character strings.  Positions are 0-based   *)
(* as in the Python source: At(text, i) is text[i], Slice(text, a, b) is   *)
(* text[a:b].                                                              *)
(***************************************************************************)
EXTENDS Integers, Sequences, FiniteSets, TLC

VARIABLES
    edges,                 \* the edge list the schema was built from
    schema,                \* GraphSchema.relationships
    pair_order,            \* iteration order of each frozenset of the schema
    cypher,                \* the text passed to validate
    pc,                    \* position inside validate
    exc,                   \* the CypherParseError of the raw parse
    normalized,            \* validate's local variable of that name
    segments,              \* segments _parse_with_fallback still has to process
    asts,                  \* the parse trees obtained
    used_fallback,
    compatibility_issues,
    pattern_parts,         \* list of (rule_path, pattern_text)
    variable_labels,       \* dict var -> frozenset of labels
    iter_order,            \* iteration order of each frozenset of variable_labels
    violations,
    outcome,               \* what validate returned or raised
    ran,                   \* history: the stages executed so far
    parse_log,             \* history: every parse_cypher call and its result
    norm,                  \* normalizer calls: [text, once, twice]
    rule,                  \* rule-engine calls
    frames,                \* depth of calls the recursion limit still allows in validate
    scan,                  \* calls of the text scanners: the input and the results
    adk,                   \* a translate_with_attempts call of AdkCypherTranslator
    mcp                    \* a StreamableHttpMcpClient and the messages it posted

valvars == <<edges, schema, pair_order, cypher, pc, exc, normalized, segments, asts,
             used_fallback, compatibility_issues, pattern_parts, variable_labels,
             iter_order, violations, outcome, ran, parse_log>>

vars == <<edges, schema, pair_order, cypher, pc, exc, normalized, segments, asts,
          used_fallback, compatibility_issues, pattern_parts, variable_labels,
          iter_order, violations, outcome, ran, parse_log, norm, rule, frames,
          scan, adk, mcp>>

\* a missing index (the None of _find_matching_brace / _find_matching_paren)
NoIndex == -1

\* an optional value is <<>> (absent) or <<v>>
Nothing == <<>>
Some(v) == <<v>>

\* ------------------------------------------------------------------------
\* Characters and Python string primitives
\* ------------------------------------------------------------------------
LowerSeq == <<"a","b","c","d","e","f","g","h","i","j","k","l","m",
              "n","o","p","q","r","s","t","u","v","w","x","y","z">>
UpperSeq == <<"A","B","C","D","E","F","G","H","I","J","K","L","M",
              "N","O","P","Q","R","S","T","U","V","W","X","Y","Z">>
Digits == {"0","1","2","3","4","5","6","7","8","9"}
\* the letter sharp s (U+00DF), whose upper-case form is the two letters SS
SZ == "<sharp s>"
Letters ==
    {LowerSeq[k] : k \in DOMAIN LowerSeq} \cup {UpperSeq[k] : k \in DOMAIN UpperSeq} \cup {SZ}
Whitespace == {" ", "\t", "\n"}
\* the backtick character (the TLA+ lexer has no way to write it in a string)
BT == "<backtick>"

isspace(c) == c \in Whitespace
isalnum(c) == c \in Letters \cup Digits

\* the upper-case form of each lower-case letter
UpperOf == [c \in {LowerSeq[k] : k \in DOMAIN LowerSeq} |->
               UpperSeq[CHOOSE k \in DOMAIN LowerSeq : LowerSeq[k] = c]]

ToUpper(c) == IF c \in DOMAIN UpperOf THEN UpperOf[c] ELSE c

\* str.upper: character by character, the sharp s giving two characters
RECURSIVE upper(_)
upper(text) ==
    IF text = <<>> THEN <<>>
    ELSE (IF Head(text) = SZ THEN <<"S","S">> ELSE <<ToUpper(Head(text))>>)
            \o upper(Tail(text))

At(text, i) == text[i + 1]

Slice(text, a, b) == SubSeq(text, a + 1, b)

\* str.startswith(prefix, i)
startswith(text, prefix, i) ==
    /\ i + Len(prefix) <= Len(text)
    /\ \A k \in 1..Len(prefix) : text[i + k] = prefix[k]

\* the comparison of re.IGNORECASE with an upper-case keyword at position i
MatchesIgnoringCase(text, target, i) ==
    /\ i + Len(target) <= Len(text)
    /\ \A k \in 1..Len(target) : ToUpper(text[i + k]) = target[k]

\* text.upper().startswith(target, i): the positions of text.upper() are those
\* of text up to the first character with a longer upper-case form
upper_startswith(text, target, i) ==
    IF \A k \in 1..Len(text) : k <= i + Len(target) => text[k] # SZ
    THEN MatchesIgnoringCase(text, target, i)
    ELSE startswith(upper(text), target, i)

endswith(text, suffix) ==
    /\ Len(suffix) <= Len(text)
    /\ \A k \in 1..Len(suffix) : text[Len(text) - Len(suffix) + k] = suffix[k]

\* the "token in text" substring test
Contains(text, token) == \E i \in 0..Len(text) : startswith(text, token, i)

RECURSIVE rstrip(_)
rstrip(text) ==
    IF Len(text) > 0 /\ isspace(text[Len(text)])
    THEN rstrip(SubSeq(text, 1, Len(text) - 1))
    ELSE text

RECURSIVE lstrip(_)
lstrip(text) ==
    IF Len(text) > 0 /\ isspace(text[1]) THEN lstrip(Tail(text)) ELSE text

strip(text) == lstrip(rstrip(text))

\* ------------------------------------------------------------------------
\* Keywords and tokens as texts
\* ------------------------------------------------------------------------
\* the keywords the scanners and the regular expressions look for
Keyword ==
    [ exists |-> <<"E","X","I","S","T","S">>,
      return |-> <<"R","E","T","U","R","N">>,
      match |-> <<"M","A","T","C","H">>,
      with |-> <<"W","I","T","H">>,
      return1 |-> <<"R","E","T","U","R","N"," ","1">>,
      optional |-> <<"O","P","T","I","O","N","A","L">>,
      unwind |-> <<"U","N","W","I","N","D">>,
      call |-> <<"C","A","L","L">>,
      create |-> <<"C","R","E","A","T","E">>,
      merge |-> <<"M","E","R","G","E">>,
      set |-> <<"S","E","T">>,
      delete |-> <<"D","E","L","E","T","E">>,
      detach |-> <<"D","E","T","A","C","H">>,
      remove |-> <<"R","E","M","O","V","E">>,
      shortest |-> <<"S","H","O","R","T","E","S","T">>,
      count |-> <<"C","O","U","N","T">>,
      collect |-> <<"C","O","L","L","E","C","T">>,
      is |-> <<"I","S">>,
      nan |-> <<"N","A","N">>,
      inf |-> <<"I","N","F">>,
      infinity |-> <<"I","N","F","I","N","I","T","Y">>,
      when |-> <<"W","H","E","N">>,
      then |-> <<"T","H","E","N">> ]

\* ------------------------------------------------------------------------
\* text_utils.py
\* ------------------------------------------------------------------------
_is_word_boundary(text, start, end) ==
    IF start > 0 /\ (isalnum(At(text, start - 1)) \/ At(text, start - 1) = "_")
    THEN FALSE
    ELSE IF end < Len(text) /\ (isalnum(At(text, end)) \/ At(text, end) = "_")
    THEN FALSE
    ELSE TRUE

PatternTokens ==
    { <<"-","[",":">>, <<"<","-","[">>, <<"]","-">>, <<"-",">">>,
      <<"<","-">>, <<")","-">>, <<"-","(">> }

\* a faulty variant: only arrows make a pattern
_looks_like_pattern_expression_arrows_only(text) ==
    \E token \in { <<"-",">">>, <<"<","-">> } : Contains(text, token)

_looks_like_pattern_expression(text) ==
    \E token \in PatternTokens : Contains(text, token)

\* one iteration of the for loop of _strip_string_literals; i is the
\* position of the character it reads
StripStep(text, st) ==
    LET char == At(text, st.i)
        next == st.i + 1
    IN  IF st.in_string
        THEN IF st.escape
             THEN [i |-> next, in_string |-> TRUE, escape |-> FALSE,
                   result |-> Append(st.result, " ")]
             ELSE IF char = "\\"
             THEN [i |-> next, in_string |-> TRUE, escape |-> TRUE,
                   result |-> Append(st.result, " ")]
             ELSE [i |-> next, in_string |-> char # "'", escape |-> FALSE,
                   result |-> Append(st.result, " ")]
        ELSE IF char = "'"
        THEN [i |-> next, in_string |-> TRUE, escape |-> st.escape,
              result |-> Append(st.result, " ")]
        ELSE [st EXCEPT !.i = next, !.result = Append(st.result, char)]

\* the iterations for the characters at lo .. hi - 1, the lower half first
RECURSIVE StripLoop(_, _, _, _)
StripLoop(text, lo, hi, st) ==
    IF hi <= lo THEN st
    ELSE IF hi = lo + 1 THEN (IF st.i = lo THEN StripStep(text, st) ELSE st)
    ELSE LET left == StripLoop(text, lo, (lo + hi) \div 2, st) IN
         IF left.i >= hi THEN left ELSE StripLoop(text, (lo + hi) \div 2, hi, left)

_strip_string_literals(text) ==
    StripLoop(text, 0, Len(text),
              [i |-> 0, in_string |-> FALSE, escape |-> FALSE, result |-> <<>>]).result

\* ------------------------------------------------------------------------
\* normalize.py: bracket matching and the EXISTS normalizer
\* ------------------------------------------------------------------------
\* the scanners of normalize.py keep a position i and the flags in_string and
\* in_backtick; a loop over them runs, for the positions lo .. hi - 1 in
\* order, the iteration that starts at that position, the lower half first

\* the character is inside or opens a string literal or a backtick name
InQuotes(st, char) == st.in_string \/ st.in_backtick \/ char = "'" \/ char = BT

\* the branches of an iteration that handle string literals and backticks
QuoteStep(text, st) ==
    LET i == st.i
        char == At(text, i)
    IN  IF st.in_string
        THEN IF char = "'" /\ i + 1 < Len(text) /\ At(text, i + 1) = "'"
             THEN [st EXCEPT !.i = i + 2]
             ELSE [st EXCEPT !.i = i + 1, !.in_string = char # "'"]
        ELSE IF st.in_backtick
        THEN [st EXCEPT !.i = i + 1, !.in_backtick = char # BT]
        ELSE IF char = "'"
        THEN [st EXCEPT !.i = i + 1, !.in_string = TRUE]
        ELSE [st EXCEPT !.i = i + 1, !.in_backtick = TRUE]

\* _find_matching_brace / _find_matching_paren share one loop, parameterised
\* by the bracket pair; found is the index of the closing bracket or NoIndex.
MatchStep(text, open, close, st) ==
    LET i == st.i
        char == At(text, i)
    IN  IF InQuotes(st, char) THEN QuoteStep(text, st)
        ELSE IF char = open THEN [st EXCEPT !.i = i + 1, !.depth = @ + 1]
        ELSE IF char = close
        THEN IF st.depth - 1 = 0
             THEN [st EXCEPT !.depth = 0, !.found = i]
             ELSE [st EXCEPT !.i = i + 1, !.depth = @ - 1]
        ELSE [st EXCEPT !.i = i + 1]

RECURSIVE MatchLoop(_, _, _, _, _, _)
MatchLoop(text, open, close, lo, hi, st) ==
    IF hi <= lo THEN st
    ELSE IF hi = lo + 1
    THEN IF st.i = lo /\ st.found = NoIndex THEN MatchStep(text, open, close, st) ELSE st
    ELSE LET left == MatchLoop(text, open, close, lo, (lo + hi) \div 2, st) IN
         IF left.found # NoIndex THEN left
         ELSE MatchLoop(text, open, close, (lo + hi) \div 2, hi, left)

MatchInit(start) ==
    [i |-> start, depth |-> 0, in_string |-> FALSE, in_backtick |-> FALSE,
     found |-> NoIndex]

_find_matching_brace(text, start) ==
    MatchLoop(text, "{", "}", start, Len(text), MatchInit(start)).found

_find_matching_paren(text, start) ==
    MatchLoop(text, "(", ")", start, Len(text), MatchInit(start)).found

Max0(n) == IF n < 0 THEN 0 ELSE n

\* new nesting depths <<paren, bracket, brace>> after reading char
DepthStep(char, d) ==
    IF char = "(" THEN <<d[1] + 1, d[2], d[3]>>
    ELSE IF char = ")" THEN <<Max0(d[1] - 1), d[2], d[3]>>
    ELSE IF char = "[" THEN <<d[1], d[2] + 1, d[3]>>
    ELSE IF char = "]" THEN <<d[1], Max0(d[2] - 1), d[3]>>
    ELSE IF char = "{" THEN <<d[1], d[2], d[3] + 1>>
    ELSE IF char = "}" THEN <<d[1], d[2], Max0(d[3] - 1)>>
    ELSE d

ReturnStep(text, st) ==
    LET i == st.i
        char == At(text, i)
        nd == DepthStep(char, st.d)
    IN  IF InQuotes(st, char) THEN QuoteStep(text, st)
        ELSE IF /\ nd = <<0, 0, 0>>
                /\ upper_startswith(text, Keyword.return, i)
                /\ _is_word_boundary(text, i, i + 6)
        THEN [st EXCEPT !.d = nd, !.found = TRUE]
        ELSE [st EXCEPT !.i = i + 1, !.d = nd]

RECURSIVE ReturnLoop(_, _, _, _)
ReturnLoop(text, lo, hi, st) ==
    IF hi <= lo THEN st
    ELSE IF hi = lo + 1
    THEN IF st.i = lo /\ ~st.found THEN ReturnStep(text, st) ELSE st
    ELSE LET left == ReturnLoop(text, lo, (lo + hi) \div 2, st) IN
         IF left.found THEN left ELSE ReturnLoop(text, (lo + hi) \div 2, hi, left)

_subquery_has_top_level_return(text) ==
    ReturnLoop(text, 0, Len(text),
               [i |-> 0, d |-> <<0, 0, 0>>, in_string |-> FALSE, in_backtick |-> FALSE,
                found |-> FALSE]).found

\* index of the first non-space character at or after j
RECURSIVE SkipSpaces(_, _)
SkipSpaces(text, j) ==
    IF j < Len(text) /\ isspace(At(text, j)) THEN SkipSpaces(text, j + 1) ELSE j

\* the body of an EXISTS { ... } after normalising it recursively
WithReturn(normalized_body) ==
    IF _subquery_has_top_level_return(normalized_body)
    THEN normalized_body
    ELSE LET r == rstrip(normalized_body) IN
         (IF Len(r) > 0 /\ ~endswith(r, <<" ">>) THEN r \o <<" ">> ELSE r)
            \o Keyword.return1

ExistsPatternReplacement(body_stripped) ==
    Keyword.exists \o <<" ","{"," ">> \o Keyword.match \o <<" ">> \o body_stripped
        \o <<" ">> \o Keyword.return1 \o <<" ","}">>

RECURSIVE _normalize_exists_subqueries(_)

\* the iteration at an EXISTS keyword; stopped is the break of the loop
ExistsStep(text, st) ==
    LET i == st.i
        j == SkipSpaces(text, i + 6)
    IN  IF j < Len(text) /\ At(text, j) = "{"
        THEN LET end == _find_matching_brace(text, j) IN
             IF end = NoIndex THEN [st EXCEPT !.stopped = TRUE]
             ELSE [st EXCEPT
                      !.result = @ \o Slice(text, st.last, i) \o Slice(text, i, j)
                                   \o <<"{">>
                                   \o WithReturn(_normalize_exists_subqueries(
                                                     Slice(text, j + 1, end)))
                                   \o <<"}">>,
                      !.i = end + 1,
                      !.last = end + 1]
        ELSE IF j < Len(text) /\ At(text, j) = "("
        THEN LET end == _find_matching_paren(text, j) IN
             IF end = NoIndex THEN [st EXCEPT !.stopped = TRUE]
             ELSE LET body_stripped == strip(Slice(text, j + 1, end)) IN
                  IF _looks_like_pattern_expression(body_stripped)
                  THEN [st EXCEPT
                           !.result = @ \o Slice(text, st.last, i)
                                        \o ExistsPatternReplacement(body_stripped),
                           !.i = end + 1,
                           !.last = end + 1]
                  ELSE [st EXCEPT !.i = i + 1]
        ELSE [st EXCEPT !.i = i + 1]

NormStep(text, st) ==
    LET i == st.i
        char == At(text, i)
    IN  IF InQuotes(st, char) THEN QuoteStep(text, st)
        ELSE IF upper_startswith(text, Keyword.exists, i) /\ _is_word_boundary(text, i, i + 6)
        THEN ExistsStep(text, st)
        ELSE [st EXCEPT !.i = i + 1]

RECURSIVE NormLoop(_, _, _, _)
NormLoop(text, lo, hi, st) ==
    IF hi <= lo THEN st
    ELSE IF hi = lo + 1
    THEN IF st.i = lo /\ ~st.stopped THEN NormStep(text, st) ELSE st
    ELSE LET left == NormLoop(text, lo, (lo + hi) \div 2, st) IN
         IF left.stopped THEN left ELSE NormLoop(text, (lo + hi) \div 2, hi, left)

_normalize_exists_subqueries(text) ==
    LET st == NormLoop(text, 0, Len(text),
                       [i |-> 0, last |-> 0, in_string |-> FALSE, in_backtick |-> FALSE,
                        result |-> <<>>, stopped |-> FALSE])
    IN  st.result \o Slice(text, st.last, Len(text))

\* ------------------------------------------------------------------------
\* The depth of calls under _normalize_exists_subqueries(text), in the units
\* of the interpreter's recursion limit: one for each Python frame and one for
\* each call that leaves the bytecode (a str method, a builtin, the comparison
\* inside max, a generator). warm tells whether the interpreter has specialised
\* the instructions of these functions: len and the comparisons of the code
\* then stay inside the bytecode and count nothing.
\* ------------------------------------------------------------------------
Deeper(a, b) == IF a > b THEN a ELSE b

\* _is_word_boundary: its frame and, inside, str.isalnum or (not warm) a
\* comparison
_is_word_boundary_frames(text, start, end, warm) ==
    IF ~warm \/ start > 0 \/ end < Len(text) THEN 2 ELSE 1

\* _find_matching_brace, _find_matching_paren: the frame and (not warm) len
_find_matching_frames(warm) == IF warm THEN 1 ELSE 2

\* ReturnStep, keeping in need the deepest call so far: max(0, depth - 1) with
\* its comparison at a closing bracket, _is_word_boundary at a RETURN
ReturnFramesStep(text, st, warm) ==
    LET i == st.i
        char == At(text, i)
        nd == DepthStep(char, st.d)
        next == ReturnStep(text, st)
        closing == IF char \in {")", "]", "}"} THEN 3 ELSE 2
        boundary == IF nd = <<0, 0, 0>> /\ upper_startswith(text, Keyword.return, i)
                    THEN 1 + _is_word_boundary_frames(text, i, i + 6, warm)
                    ELSE 2
    IN  IF InQuotes(st, char) THEN next
        ELSE [next EXCEPT !.need = Deeper(@, Deeper(closing, boundary))]

RECURSIVE ReturnFramesLoop(_, _, _, _, _)
ReturnFramesLoop(text, lo, hi, st, warm) ==
    IF hi <= lo THEN st
    ELSE IF hi = lo + 1
    THEN IF st.i = lo /\ ~st.found THEN ReturnFramesStep(text, st, warm) ELSE st
    ELSE LET left == ReturnFramesLoop(text, lo, (lo + hi) \div 2, st, warm) IN
         IF left.found THEN left
         ELSE ReturnFramesLoop(text, (lo + hi) \div 2, hi, left, warm)

\* _subquery_has_top_level_return: the frame, text.upper() and the above
_subquery_has_top_level_return_frames(text, warm) ==
    ReturnFramesLoop(text, 0, Len(text),
                     [i |-> 0, d |-> <<0, 0, 0>>, in_string |-> FALSE,
                      in_backtick |-> FALSE, found |-> FALSE, need |-> 2],
                     warm).need

RECURSIVE _normalize_exists_subqueries_frames(_, _)

\* NormStep, keeping in need the deepest call so far
FramesStep(text, st, warm) ==
    LET i == st.i
        char == At(text, i)
        j == SkipSpaces(text, i + 6)
        next == NormStep(text, st)
        keyword == ~InQuotes(st, char) /\ upper_startswith(text, Keyword.exists, i)
        bracket == /\ keyword
                   /\ _is_word_boundary(text, i, i + 6)
                   /\ j < Len(text)
        end == IF At(text, j) = "{" THEN _find_matching_brace(text, j)
               ELSE _find_matching_paren(text, j)
        inside ==
            IF bracket /\ At(text, j) = "{"
            THEN IF end = NoIndex THEN 1 + _find_matching_frames(warm)
                 ELSE LET body == Slice(text, j + 1, end) IN
                      Deeper(1 + _normalize_exists_subqueries_frames(body, warm),
                             1 + _subquery_has_top_level_return_frames(
                                     _normalize_exists_subqueries(body), warm))
            ELSE IF bracket /\ At(text, j) = "("
            THEN IF end = NoIndex THEN 1 + _find_matching_frames(warm)
                 ELSE 4  \* _looks_like_pattern_expression, any, its generator
            ELSE 2
        boundary == IF keyword THEN 1 + _is_word_boundary_frames(text, i, i + 6, warm)
                    ELSE 2
    IN  [next EXCEPT !.need = Deeper(@, Deeper(boundary, inside))]

RECURSIVE FramesLoop(_, _, _, _, _)
FramesLoop(text, lo, hi, st, warm) ==
    IF hi <= lo THEN st
    ELSE IF hi = lo + 1
    THEN IF st.i = lo /\ ~st.stopped THEN FramesStep(text, st, warm) ELSE st
    ELSE LET left == FramesLoop(text, lo, (lo + hi) \div 2, st, warm) IN
         IF left.stopped THEN left
         ELSE FramesLoop(text, (lo + hi) \div 2, hi, left, warm)

\* what the call _normalize_exists_subqueries(text) needs: its frame,
\* text.upper() and the above
_normalize_exists_subqueries_frames(text, warm) ==
    FramesLoop(text, 0, Len(text),
               [i |-> 0, last |-> 0, in_string |-> FALSE, in_backtick |-> FALSE,
                result |-> <<>>, stopped |-> FALSE, need |-> 2],
               warm).need

\* ------------------------------------------------------------------------
\* More Python string primitives used by extract.py
\* ------------------------------------------------------------------------
\* the index of the first c at or after i, Len(text) when there is none
IndexOf(text, c, i) ==
    IF \E k \in i..(Len(text) - 1) : At(text, k) = c
    THEN CHOOSE k \in i..(Len(text) - 1) :
            At(text, k) = c /\ \A m \in i..(k - 1) : At(text, m) # c
    ELSE Len(text)

HasChar(text, c) == IndexOf(text, c, 0) < Len(text)

\* text.split(c, 1)[0] and text.split(c, 1)[1]
BeforeFirst(text, c) == Slice(text, 0, IndexOf(text, c, 0))
AfterFirst(text, c) == Slice(text, IndexOf(text, c, 0) + 1, Len(text))

\* text.split(c)
RECURSIVE SplitAll(_, _)
SplitAll(text, c) ==
    IF HasChar(text, c)
    THEN <<BeforeFirst(text, c)>> \o SplitAll(AfterFirst(text, c), c)
    ELSE <<text>>

\* text.strip(chars)
RECURSIVE StripChars(_, _)
StripChars(text, chars) ==
    IF Len(text) > 0 /\ text[1] \in chars THEN StripChars(Tail(text), chars)
    ELSE IF Len(text) > 0 /\ text[Len(text)] \in chars
    THEN StripChars(SubSeq(text, 1, Len(text) - 1), chars)
    ELSE text

\* text.split()[0] for a text that is not all whitespace
FirstWord(text) ==
    LET t == lstrip(text)
        RECURSIVE WordEnd(_)
        WordEnd(k) == IF k < Len(t) /\ ~isspace(At(t, k)) THEN WordEnd(k + 1) ELSE k
    IN  Slice(t, 0, WordEnd(0))

NonBlank(text) == Len(strip(text)) > 0

\* [piece.strip() for piece in pieces if piece.strip()], then part.split()[0]
RECURSIVE TypeTokens(_)
TypeTokens(pieces) ==
    IF pieces = <<>> THEN <<>>
    ELSE (IF NonBlank(Head(pieces)) THEN <<FirstWord(strip(Head(pieces)))>> ELSE <<>>)
            \o TypeTokens(Tail(pieces))

\* ------------------------------------------------------------------------
\* extract.py
\* ------------------------------------------------------------------------
_extract_rel_types(rel_text) ==
    LET trimmed == strip(BeforeFirst(rel_text, "{")) IN
    IF ~HasChar(trimmed, ":") THEN <<>>
    ELSE LET rel_part == strip(BeforeFirst(AfterFirst(trimmed, ":"), "*")) IN
         IF Len(rel_part) = 0 THEN <<>>
         ELSE TypeTokens(SplitAll(rel_part, "|"))

\* _consume_group returns (text[start + 1 : i], i), i the index of the first
\* close_char after start (or len(text))
_consume_group(text, start, open_char, close_char) ==
    LET i == IndexOf(text, close_char, start + 1) IN
    <<Slice(text, start + 1, i), i>>

LabelChars == {BT, " "}

\* tuple(label.strip(...) for label in labels if label.strip())
RECURSIVE CleanLabels(_)
CleanLabels(labels) ==
    IF labels = <<>> THEN <<>>
    ELSE (IF NonBlank(Head(labels))
          THEN <<StripChars(strip(Head(labels)), LabelChars)>> ELSE <<>>)
            \o CleanLabels(Tail(labels))

\* a _NodeUse; var is <<>> for None
_parse_node(node_text) ==
    LET trimmed == strip(BeforeFirst(node_text, "{")) IN
    IF Len(trimmed) = 0
    THEN [text |-> node_text, var |-> Nothing, labels |-> <<>>]
    ELSE LET parts == SplitAll(trimmed, ":")
             var_part == strip(parts[1])
         IN  [text |-> node_text,
              var |-> IF Len(var_part) > 0
                      THEN Some(StripChars(var_part, LabelChars))
                      ELSE Nothing,
              labels |-> CleanLabels(Tail(parts))]

RECURSIVE LeftDirLoop(_, _)
LeftDirLoop(text, i) ==
    IF i >= 0 /\ isspace(At(text, i)) THEN LeftDirLoop(text, i - 1) ELSE i

_read_left_dir(text, rel_start) ==
    LET i == LeftDirLoop(text, rel_start - 1) IN
    IF i >= 1 /\ At(text, i) = "-" /\ At(text, i - 1) = "<" THEN "<-" ELSE "-"

_read_right_dir(text, rel_end) ==
    LET i == SkipSpaces(text, rel_end + 1) IN
    IF i + 1 < Len(text) /\ At(text, i) = "-" /\ At(text, i + 1) = ">" THEN "->" ELSE "-"

\* _iter_relationships: last_node and pending are <<>> for None
RelStep(text, st) ==
    LET i == st.i
        char == At(text, i)
    IN  IF char = "("
        THEN LET g == _consume_group(text, i, "(", ")")
                 node == _parse_node(g[1])
             IN  [i |-> g[2] + 1,
                  last_node |-> Some(node),
                  pending |-> Nothing,
                  out |-> IF st.pending # Nothing
                          THEN Append(st.out, [st.pending[1] EXCEPT
                                                  !.right_node = g[1],
                                                  !.right_var = node.var,
                                                  !.right_labels = node.labels])
                          ELSE st.out]
        ELSE IF char = "["
        THEN LET g == _consume_group(text, i, "[", "]") IN
             [st EXCEPT
                 !.i = g[2] + 1,
                 !.pending =
                     IF st.last_node # Nothing
                     THEN Some([left_node |-> st.last_node[1].text,
                                right_node |-> <<>>,
                                rel_text |-> g[1],
                                left_dir |-> _read_left_dir(text, i),
                                right_dir |-> _read_right_dir(text, g[2]),
                                left_var |-> st.last_node[1].var,
                                right_var |-> Nothing,
                                left_labels |-> st.last_node[1].labels,
                                right_labels |-> <<>>])
                     ELSE st.pending]
        ELSE [st EXCEPT !.i = i + 1]

RECURSIVE RelLoop(_, _, _, _)
RelLoop(text, lo, hi, st) ==
    IF hi <= lo THEN st
    ELSE IF hi = lo + 1 THEN (IF st.i = lo THEN RelStep(text, st) ELSE st)
    ELSE LET left == RelLoop(text, lo, (lo + hi) \div 2, st) IN
         IF left.i >= hi THEN left ELSE RelLoop(text, (lo + hi) \div 2, hi, left)

_iter_relationships(query) ==
    LET text == _strip_string_literals(query) IN
    RelLoop(text, 0, Len(text),
            [i |-> 0, last_node |-> Nothing, pending |-> Nothing, out |-> <<>>]).out

NodeStep(text, st) ==
    IF At(text, st.i) = "("
    THEN LET g == _consume_group(text, st.i, "(", ")") IN
         [i |-> g[2] + 1, out |-> Append(st.out, _parse_node(g[1]))]
    ELSE [st EXCEPT !.i = st.i + 1]

RECURSIVE NodeLoop(_, _, _, _)
NodeLoop(text, lo, hi, st) ==
    IF hi <= lo THEN st
    ELSE IF hi = lo + 1 THEN (IF st.i = lo THEN NodeStep(text, st) ELSE st)
    ELSE LET left == NodeLoop(text, lo, (lo + hi) \div 2, st) IN
         IF left.i >= hi THEN left ELSE NodeLoop(text, (lo + hi) \div 2, hi, left)

_iter_nodes(query) ==
    LET text == _strip_string_literals(query) IN
    NodeLoop(text, 0, Len(text), [i |-> 0, out |-> <<>>]).out

\* labels_by_var.setdefault(node.var, set()).update(node.labels)
SeqRange(xs) == {xs[k] : k \in 1..Len(xs)}

\* a faulty variant: a later declaration replaces the earlier labels
AddLabels_overwrites(labels_by_var, node) ==
    IF node.var # Nothing /\ Len(node.var[1]) > 0 /\ node.labels # <<>>
    THEN [v \in DOMAIN labels_by_var \cup {node.var[1]} |->
             IF v = node.var[1] THEN SeqRange(node.labels) ELSE labels_by_var[v]]
    ELSE labels_by_var

AddLabels(labels_by_var, node) ==
    IF node.var # Nothing /\ Len(node.var[1]) > 0 /\ node.labels # <<>>
    THEN IF node.var[1] \in DOMAIN labels_by_var
         THEN [labels_by_var EXCEPT ![node.var[1]] = @ \cup SeqRange(node.labels)]
         ELSE labels_by_var @@ (node.var[1] :> SeqRange(node.labels))
    ELSE labels_by_var

RECURSIVE FoldNodes(_, _)
FoldNodes(nodes, labels_by_var) ==
    IF nodes = <<>> THEN labels_by_var
    ELSE FoldNodes(Tail(nodes), AddLabels(labels_by_var, Head(nodes)))

EmptyMap == [x \in {} |-> {}]

\* the dict var -> frozenset of labels
RECURSIVE CollectLoop(_, _)
CollectLoop(pattern_texts, labels_by_var) ==
    IF pattern_texts = <<>> THEN labels_by_var
    ELSE CollectLoop(Tail(pattern_texts),
                     FoldNodes(_iter_nodes(Head(pattern_texts)), labels_by_var))

_collect_variable_labels(pattern_texts) == CollectLoop(pattern_texts, EmptyMap)

\* the orders in which iterating a frozenset can deliver its elements
Orderings(S) ==
    { t \in [1..Cardinality(S) -> S] : \A x \in S : \E k \in DOMAIN t : t[k] = x }

\* _resolve_labels; order[var] is the order in which tuple(frozenset)
\* delivers the labels of var in this process
_resolve_labels(explicit, var, var_labels, order) ==
    IF explicit # <<>> THEN explicit
    ELSE IF var # Nothing /\ Len(var[1]) > 0 /\ var[1] \in DOMAIN var_labels
    THEN order[var[1]]
    ELSE <<>>

\* the characters of a direction marker
DirText(dir) ==
    IF dir = "<-" THEN <<"<", "-">> ELSE IF dir = "->" THEN <<"-", ">">> ELSE <<"-">>

_format_snippet(rel_use) ==
    <<"(">> \o rel_use.left_node \o <<")">> \o DirText(rel_use.left_dir) \o <<"[">>
        \o rel_use.rel_text \o <<"]">> \o DirText(rel_use.right_dir) \o <<"(">>
        \o rel_use.right_node \o <<")">>

\* ------------------------------------------------------------------------
\* graph_schema.py and schema_rules.py
\* ------------------------------------------------------------------------
\* an edge is <<src, rel, dst>>; the schema maps rel to its set of <<src, dst>>
RECURSIVE FromEdgesLoop(_, _)
FromEdgesLoop(edge_list, mapping) ==
    IF edge_list = <<>> THEN mapping
    ELSE LET src == Head(edge_list)[1]
             rel == Head(edge_list)[2]
             dst == Head(edge_list)[3]
         IN  FromEdgesLoop(Tail(edge_list),
                 IF rel \in DOMAIN mapping
                 THEN [mapping EXCEPT ![rel] = @ \cup {<<src, dst>>}]
                 ELSE mapping @@ (rel :> {<<src, dst>>}))

from_edges(edge_list) == FromEdgesLoop(edge_list, EmptyMap)

\* self.relationships.get(rel_type, frozenset())
RelationshipsGet(gs, rel_type) ==
    IF rel_type \in DOMAIN gs THEN gs[rel_type] ELSE {}

\* a faulty variant: membership regardless of orientation
allows_either_way(gs, rel_type, src_label, dst_label) ==
    \/ <<src_label, dst_label>> \in RelationshipsGet(gs, rel_type)
    \/ <<dst_label, src_label>> \in RelationshipsGet(gs, rel_type)

allows(gs, rel_type, src_label, dst_label) ==
    <<src_label, dst_label>> \in RelationshipsGet(gs, rel_type)

_direction_from_match(left_dir, right_dir) ==
    IF left_dir = "<-" /\ right_dir = "->" THEN "both"
    ELSE IF left_dir = "<-" THEN "right_to_left"
    ELSE IF right_dir = "->" THEN "left_to_right"
    ELSE "undirected"

\* the two nested for loops over left_labels and right_labels, returning at
\* the first allowed combination; swap is TRUE for the reversed orientation
RECURSIVE PairLoop(_, _, _, _, _, _, _)
PairLoop(gs, rel_type, left_labels, right_labels, l, r, swap) ==
    IF l > Len(left_labels) THEN FALSE
    ELSE IF r > Len(right_labels)
    THEN PairLoop(gs, rel_type, left_labels, right_labels, l + 1, 1, swap)
    ELSE IF (IF swap
             THEN allows(gs, rel_type, right_labels[r], left_labels[l])
             ELSE allows(gs, rel_type, left_labels[l], right_labels[r]))
    THEN TRUE
    ELSE PairLoop(gs, rel_type, left_labels, right_labels, l, r + 1, swap)

ForwardDirections == {"left_to_right", "both", "undirected"}
\* a faulty variant: an undirected pattern is only read left to right
BackwardDirections_forgets_undirected == {"right_to_left", "both"}

BackwardDirections == {"right_to_left", "both", "undirected"}

RECURSIVE AllowedLoop(_, _, _, _, _, _)
AllowedLoop(gs, rel_types, k, left_labels, right_labels, direction) ==
    IF k > Len(rel_types) THEN FALSE
    ELSE IF /\ direction \in ForwardDirections
            /\ PairLoop(gs, rel_types[k], left_labels, right_labels, 1, 1, FALSE)
    THEN TRUE
    ELSE IF /\ direction \in BackwardDirections
            /\ PairLoop(gs, rel_types[k], left_labels, right_labels, 1, 1, TRUE)
    THEN TRUE
    ELSE AllowedLoop(gs, rel_types, k + 1, left_labels, right_labels, direction)

\* a faulty variant: only the first alternative of the edge types is tried
_is_allowed_first_type(gs, rel_types, left_labels, right_labels, direction) ==
    AllowedLoop(gs, SubSeq(rel_types, 1, 1), 1, left_labels, right_labels, direction)

_is_allowed(gs, rel_types, left_labels, right_labels, direction) ==
    AllowedLoop(gs, rel_types, 1, left_labels, right_labels, direction)

\* ------------------------------------------------------------------------
\* Regular-expression searches of normalize.py and compatibility.py
\* ------------------------------------------------------------------------

\* \w of the re module
isword(c) == isalnum(c) \/ c = "_"

\* \b at position i of text
WordBoundaryAt(text, i) ==
    (i > 0 /\ isword(At(text, i - 1))) # (i < Len(text) /\ isword(At(text, i)))

\* \bKEYWORD\b matches at position i, ignoring case
KeywordAt(text, keyword, i) ==
    /\ MatchesIgnoringCase(text, keyword, i)
    /\ WordBoundaryAt(text, i)
    /\ WordBoundaryAt(text, i + Len(keyword))

\* re.search(r"\bKEYWORD\b", text, re.IGNORECASE)
HasKeyword(text, keyword) == \E i \in 0..Len(text) : KeywordAt(text, keyword, i)

\* \bOPTIONAL\s+MATCH\b matches at position i
OptionalMatchAt(text, i) ==
    /\ MatchesIgnoringCase(text, Keyword.optional, i)
    /\ WordBoundaryAt(text, i)
    /\ i + 8 < Len(text) /\ isspace(At(text, i + 8))
    /\ LET j == SkipSpaces(text, i + 8) IN
         MatchesIgnoringCase(text, Keyword.match, j) /\ WordBoundaryAt(text, j + 5)

ClauseStartKeywords ==
    {Keyword.match, Keyword.unwind, Keyword.call, Keyword.create, Keyword.merge, Keyword.set, Keyword.delete, Keyword.detach, Keyword.remove, Keyword.return}

WriteClauseKeywords == {Keyword.create, Keyword.merge, Keyword.set, Keyword.delete, Keyword.detach, Keyword.remove}

\* _CLAUSE_START_RE can match at position i
ClauseStartAt(text, i) ==
    \/ OptionalMatchAt(text, i)
    \/ \E keyword \in ClauseStartKeywords : KeywordAt(text, keyword, i)

_strip_to_first_clause(text) ==
    IF \E i \in 0..Len(text) : ClauseStartAt(text, i)
    THEN LET start == CHOOSE i \in 0..Len(text) :
                         /\ ClauseStartAt(text, i)
                         /\ \A k \in 0..(i - 1) : ~ClauseStartAt(text, k)
         IN  strip(Slice(text, start, Len(text)))
    ELSE <<>>

\* a faulty variant: RETURN 1 is appended to a write clause without RETURN
_ensure_return_clause_ignores_writes(text) ==
    LET t == strip(text)
        RECURSIVE DropSemis(_)
        DropSemis(u) == IF Len(u) > 0 /\ u[Len(u)] = ";"
                        THEN DropSemis(SubSeq(u, 1, Len(u) - 1)) ELSE u
        r == DropSemis(t)
    IN  IF HasKeyword(r, Keyword.return) THEN r
        ELSE r \o <<" ">> \o Keyword.return1

_ensure_return_clause(text) ==
    LET t == strip(text)
        RECURSIVE DropSemis(_)
        DropSemis(u) == IF Len(u) > 0 /\ u[Len(u)] = ";"
                        THEN DropSemis(SubSeq(u, 1, Len(u) - 1)) ELSE u
        r == DropSemis(t)
    IN  IF HasKeyword(r, Keyword.return) THEN r
        ELSE IF \E keyword \in WriteClauseKeywords : HasKeyword(r, keyword) THEN r
        ELSE r \o <<" ">> \o Keyword.return1

SplitStep(text, target, st) ==
    LET i == st.i
        char == At(text, i)
        nd == DepthStep(char, st.d)
    IN  IF InQuotes(st, char) THEN QuoteStep(text, st)
        ELSE IF /\ nd = <<0, 0, 0>>
                /\ upper_startswith(text, target, i)
                /\ _is_word_boundary(text, i, i + Len(target))
        THEN [st EXCEPT !.d = nd,
                        !.segs = Append(@, Slice(text, st.start, i)),
                        !.i = i + Len(target),
                        !.start = i + Len(target)]
        ELSE [st EXCEPT !.i = i + 1, !.d = nd]

RECURSIVE SplitLoop(_, _, _, _, _)
SplitLoop(text, target, lo, hi, st) ==
    IF hi <= lo THEN st
    ELSE IF hi = lo + 1 THEN (IF st.i = lo THEN SplitStep(text, target, st) ELSE st)
    ELSE LET left == SplitLoop(text, target, lo, (lo + hi) \div 2, st) IN
         IF left.i >= hi THEN left
         ELSE SplitLoop(text, target, (lo + hi) \div 2, hi, left)

_split_top_level_keyword(text, keyword) ==
    LET st == SplitLoop(text, upper(keyword), 0, Len(text),
                        [i |-> 0, start |-> 0, d |-> <<0, 0, 0>>, in_string |-> FALSE,
                         in_backtick |-> FALSE, segs |-> <<>>])
    IN  Append(st.segs, Slice(text, st.start, Len(text)))

\* \bCOUNT\s*\{ and the like: keyword at a word boundary, spaces, then next
KeywordThen(text, keyword, next) ==
    \E i \in 0..Len(text) :
        /\ MatchesIgnoringCase(text, keyword, i)
        /\ WordBoundaryAt(text, i)
        /\ startswith(text, next, SkipSpaces(text, i + Len(keyword)))

OctalDigits == {"0","1","2","3","4","5","6","7"}

RECURSIVE OctalRunEnd(_, _)
OctalRunEnd(text, j) ==
    IF j < Len(text) /\ At(text, j) \in OctalDigits THEN OctalRunEnd(text, j + 1) ELSE j

\* \b0o[0-7]+\b, ignoring case
HasOctalLiteral(text) ==
    \E i \in 0..Len(text) :
        /\ MatchesIgnoringCase(text, <<"0","O">>, i)
        /\ WordBoundaryAt(text, i)
        /\ OctalRunEnd(text, i + 2) > i + 2
        /\ WordBoundaryAt(text, OctalRunEnd(text, i + 2))

\* (\]|-)\s*\{\s*\d
HasFixedLength(text) ==
    \E i \in 0..Len(text) :
        /\ i < Len(text) /\ At(text, i) \in {"]", "-"}
        /\ LET j == SkipSpaces(text, i + 1) IN
             /\ j < Len(text) /\ At(text, j) = "{"
             /\ LET k == SkipSpaces(text, j + 1) IN
                  k < Len(text) /\ At(text, k) \in Digits

CaseStep(text, st) ==
    LET i == st.i
        char == At(text, i)
        nd == DepthStep(char, st.d)
    IN  IF nd = <<0, 0, 0>>
        THEN IF upper_startswith(text, Keyword.when, i)
             THEN [st EXCEPT !.d = nd, !.in_when = TRUE, !.comma_in_when = FALSE,
                             !.i = i + 4]
             ELSE IF st.in_when /\ upper_startswith(text, Keyword.then, i)
             THEN IF st.comma_in_when
                  THEN [st EXCEPT !.d = nd, !.found = TRUE]
                  ELSE [st EXCEPT !.d = nd, !.in_when = FALSE, !.i = i + 4]
             ELSE [st EXCEPT !.d = nd, !.i = i + 1,
                             !.comma_in_when = @ \/ (st.in_when /\ char = ",")]
        ELSE [st EXCEPT !.d = nd, !.i = i + 1]

RECURSIVE CaseLoop(_, _, _, _)
CaseLoop(text, lo, hi, st) ==
    IF hi <= lo THEN st
    ELSE IF hi = lo + 1
    THEN IF st.i = lo /\ ~st.found THEN CaseStep(text, st) ELSE st
    ELSE LET left == CaseLoop(text, lo, (lo + hi) \div 2, st) IN
         IF left.found THEN left ELSE CaseLoop(text, (lo + hi) \div 2, hi, left)

_case_when_has_multiple_values(stripped) ==
    CaseLoop(stripped, 0, Len(stripped),
             [i |-> 0, d |-> <<0, 0, 0>>, in_when |-> FALSE, comma_in_when |-> FALSE,
              found |-> FALSE]).found

\* the messages of the compatibility rules; an issue is a tuple of message parts
Issue ==
    [ not_label |-> <<"NOT label expressions (:!Label) are not supported">>,
      shortest |-> <<"SHORTEST keyword is not supported; use Memgraph path syntax">>,
      count |-> <<"COUNT subqueries are not supported">>,
      collect |-> <<"COLLECT subqueries are not supported">>,
      type_predicate |-> <<"Type predicate 'IS ::' is not supported">>,
      octal |-> <<"Octal integer literals (0o...) are not supported">>,
      nan |-> <<"NaN/Inf/Infinity float literals are not supported">>,
      fixed_length |-> <<"Fixed-length patterns using '{n}' are not supported">>,
      case_when |-> <<"CASE WHEN with multiple values (comma-separated) is not supported">>,
      exists_property |-> <<"exists(n.property) is not supported; use IS NOT NULL">>,
      pattern_expression |-> <<"Patterns in expressions are not supported (except EXISTS(pattern))">> ]

IssueFunction(func_name) == <<"Function '">> \o func_name \o <<"' is not supported">>

When(cond, issue) == IF cond THEN <<issue>> ELSE <<>>

\* the issues of the textual rules, in the order the code appends them
TextualIssues(stripped) ==
    When(Contains(stripped, <<":","!">>), Issue.not_label)
    \o When(HasKeyword(stripped, Keyword.shortest), Issue.shortest)
    \o When(KeywordThen(stripped, Keyword.count, <<"{">>), Issue.count)
    \o When(KeywordThen(stripped, Keyword.collect, <<"{">>), Issue.collect)
    \o When(KeywordThen(stripped, Keyword.is, <<":",":">>), Issue.type_predicate)
    \o When(HasOctalLiteral(stripped), Issue.octal)
    \o When(\E keyword \in {Keyword.nan, Keyword.inf, Keyword.infinity} : HasKeyword(stripped, keyword),
            Issue.nan)
    \o When(HasFixedLength(stripped), Issue.fixed_length)
    \o When(_case_when_has_multiple_values(stripped), Issue.case_when)

\* ------------------------------------------------------------------------
\* Parse trees (cypher_ast.py, ast_utils.py) and the AST rules
\* ------------------------------------------------------------------------
\* the lower-case form of each upper-case letter
LowerOf == [c \in {UpperSeq[k] : k \in DOMAIN UpperSeq} |->
               LowerSeq[CHOOSE k \in DOMAIN UpperSeq : UpperSeq[k] = c]]

ToLower(c) == IF c \in DOMAIN LowerOf THEN LowerOf[c] ELSE c

lower(text) == [k \in 1..Len(text) |-> ToLower(text[k])]

\* rule names of the parser's grammar (parser.ruleNames)
RuleName ==
    [ script |-> <<"s","c","r","i","p","t">>,
      query |-> <<"q","u","e","r","y">>,
      matchSt |-> <<"m","a","t","c","h","S","t">>,
      patternWhere |-> <<"p","a","t","t","e","r","n","W","h","e","r","e">>,
      pattern |-> <<"p","a","t","t","e","r","n">>,
      patternPart |-> <<"p","a","t","t","e","r","n","P","a","r","t">>,
      patternElem |-> <<"p","a","t","t","e","r","n","E","l","e","m">>,
      returnSt |-> <<"r","e","t","u","r","n","S","t">>,
      subqueryExist |-> <<"s","u","b","q","u","e","r","y","E","x","i","s","t">>,
      functionInvocation |-> <<"f","u","n","c","t","i","o","n","I","n","v","o","c","a","t","i","o","n">> ]

\* a terminal node and a ParserRuleContext; getText() of a rule context is the
\* concatenation of the texts of its children
Terminal(text) == [is_rule |-> FALSE, rule |-> <<>>, text |-> text, children |-> <<>>]

RECURSIVE ChildrenText(_)
ChildrenText(children) ==
    IF children = <<>> THEN <<>> ELSE Head(children).text \o ChildrenText(Tail(children))

RuleContext(rule_name, children) ==
    [is_rule |-> TRUE, rule |-> rule_name, text |-> ChildrenText(children),
     children |-> children]

Reverse(xs) == [k \in 1..Len(xs) |-> xs[Len(xs) + 1 - k]]

\* the stack holds (node, path) pairs, its top is the last element
RECURSIVE IterLoop(_, _)
IterLoop(stack, out) ==
    IF stack = <<>> THEN out
    ELSE LET node == stack[Len(stack)][1]
             path == stack[Len(stack)][2]
             rest == SubSeq(stack, 1, Len(stack) - 1)
         IN  IF node.is_rule
             THEN LET next_path == Append(path, node.rule) IN
                  IterLoop(rest \o [k \in 1..Len(node.children) |->
                                       <<Reverse(node.children)[k], next_path>>],
                           Append(out, [rule_name |-> node.rule, ctx |-> node,
                                        rule_path |-> next_path]))
             ELSE IterLoop(rest, out)

_iter_rule_contexts(tree) == IterLoop(<< <<tree, <<>> >> >>, <<>>)

_is_pattern_context(rule_name) ==
    \/ endswith(lower(rule_name), <<"p","a","t","t","e","r","n","p","a","r","t">>)
    \/ endswith(lower(rule_name), <<"p","a","t","t","e","r","n","e","l","e","m","e","n","t">>)

_is_function_context(rule_name) ==
    endswith(lower(rule_name), <<"f","u","n","c","t","i","o","n","i","n","v","o","c","a","t","i","o","n">>)

_UNSUPPORTED_FUNCTIONS ==
    { <<"t","o","b","o","o","l","e","a","n","l","i","s","t">>,
      <<"t","o","b","o","o","l","e","a","n","o","r","n","u","l","l">>,
      <<"t","o","f","l","o","a","t","l","i","s","t">>,
      <<"t","o","f","l","o","a","t","o","r","n","u","l","l">>,
      <<"t","o","i","n","t","e","g","e","r","l","i","s","t">>,
      <<"t","o","i","n","t","e","g","e","r","o","r","n","u","l","l">>,
      <<"t","o","s","t","r","i","n","g","l","i","s","t">>,
      <<"i","s","e","m","p","t","y">>,
      <<"e","l","e","m","e","n","t","i","d">>,
      <<"n","u","l","l","i","f">>,
      <<"p","e","r","c","e","n","t","i","l","e","c","o","n","t">>,
      <<"p","e","r","c","e","n","t","i","l","e","d","i","s","c">>,
      <<"s","t","d","e","v">>,
      <<"s","t","d","e","v","p">>,
      <<"i","s","n","a","n">>,
      <<"c","o","t">>,
      <<"d","e","g","r","e","e","s">>,
      <<"h","a","v","e","r","s","i","n">>,
      <<"r","a","d","i","a","n","s">>,
      <<"n","o","r","m","a","l","i","z","e">>,
      <<"t","i","m","e">>,
      <<"s","h","o","r","t","e","s","t","p","a","t","h">>,
      <<"a","l","l","s","h","o","r","t","e","s","t","p","a","t","h","s">> }

Last(xs) == xs[Len(xs)]

\* a faulty variant: the whole dotted name is kept
_split_function_invocation_keeps_namespace(text) ==
    IF HasChar(text, "(")
    THEN LET idx == IndexOf(text, "(", 0) IN
         << Slice(text, 0, idx),
            IF endswith(text, <<")">>)
            THEN Slice(text, idx + 1, Len(text) - 1)
            ELSE Slice(text, idx + 1, Len(text)) >>
    ELSE <<text, <<>> >>

\* <<function name, argument text>>
_split_function_invocation(text) ==
    IF HasChar(text, "(")
    THEN LET idx == IndexOf(text, "(", 0) IN
         << Last(SplitAll(Slice(text, 0, idx), ".")),
            IF endswith(text, <<")">>)
            THEN Slice(text, idx + 1, Len(text) - 1)
            ELSE Slice(text, idx + 1, Len(text)) >>
    ELSE <<text, <<>> >>

RECURSIVE AstIssues(_)
AstIssues(contexts) ==
    IF contexts = <<>> THEN <<>>
    ELSE LET c == Head(contexts)
             func_name == lower(_split_function_invocation(c.ctx.text)[1])
             args_text == _split_function_invocation(c.ctx.text)[2]
         IN  (IF ~_is_function_context(c.rule_name) THEN <<>>
              ELSE IF func_name \in _UNSUPPORTED_FUNCTIONS
              THEN <<IssueFunction(func_name)>>
              ELSE IF func_name = <<"e","x","i","s","t","s">>
              THEN When(~_looks_like_pattern_expression(args_text), Issue.exists_property)
              ELSE When(_looks_like_pattern_expression(args_text), Issue.pattern_expression))
             \o AstIssues(Tail(contexts))

\* a faulty variant: without a tree no rule runs
_find_compatibility_issues_needs_tree(text, tree) ==
    IF tree = Nothing THEN <<>>
    ELSE TextualIssues(_strip_string_literals(text)) \o AstIssues(_iter_rule_contexts(tree[1]))

\* tree is Nothing (None) when the fallback was used
_find_compatibility_issues(text, tree) ==
    TextualIssues(_strip_string_literals(text))
        \o (IF tree = Nothing THEN <<>> ELSE AstIssues(_iter_rule_contexts(tree[1])))

\* parse_cypher: the verdict of the generated parser is its tree and the
\* errors its listener collected
Interleave(errors) ==
    [k \in 1..(2 * Len(errors) - 1) |-> IF k % 2 = 1 THEN errors[(k + 1) \div 2] ELSE "; "]

NoTree == Terminal(<<>>)

parse_cypher(text, verdict) ==
    IF verdict.errors # <<>>
    THEN [ok |-> FALSE, text |-> text, tree |-> NoTree,
          message |-> <<"Cypher parse failed: ">> \o Interleave(verdict.errors)]
    ELSE [ok |-> TRUE, text |-> text, tree |-> verdict.tree, message |-> <<>>]

\* what the history keeps of a parse_cypher call
LogEntry(result) == [text |-> result.text, ok |-> result.ok, message |-> result.message]

\* ------------------------------------------------------------------------
\* What the parser can answer: trees over a few patterns and function calls
\* ------------------------------------------------------------------------
MaxParts == 2

\* getText() of the pattern contexts the parser can deliver:
\*   (a:A{x:1})-[:T]->(b:B)-[:T]->(a)
\*   (a:A)<-[:T]-(b:B)
\*   (a)-[:T]->(b:B)
\*   (a:B)
\*   (a:A)-[:T]-(b)
\*   (a:A)-[]->(b:B)
\*   (b)<-[:U|T]->(a)
PatternTexts ==
    << <<"(","a",":","A","{","x",":","1","}",")","-","[",":","T","]","-",">","(","b",":","B",")","-","[",":","T","]","-",">","(","a",")">>,
       <<"(","a",":","A",")","<","-","[",":","T","]","-","(","b",":","B",")">>,
       <<"(","a",")","-","[",":","T","]","-",">","(","b",":","B",")">>,
       <<"(","a",":","B",")">>,
       <<"(","a",":","A",")","-","[",":","T","]","-","(","b",")">>,
       <<"(","a",":","A",")","-","[","]","-",">","(","b",":","B",")">>,
       <<"(","b",")","<","-","[",":","U","|","T","]","-",">","(","a",")">> >>

\* (a:A)-[:T]->(b:B) and (a:A)<-[:T]-(b:B)
FunctionTreePatterns ==
    { <<"(","a",":","A",")","-","[",":","T","]","-",">","(","b",":","B",")">>,
      <<"(","a",":","A",")","<","-","[",":","T","]","-","(","b",":","B",")">> }

\* the function invocations of a tree: time(), exists(a.x), size((a)-[:T]->(b)),
\* count(a), time() and exists(a.x), x.Time((a)-[:T]->(b)), or the four of
\* EXISTS((a)-[:T]->(b)), size((a)--(b)), exists(a.x) and count(a)
FuncLists ==
    LET time == <<"t","i","m","e","(",")">>
        exists == <<"e","x","i","s","t","s","(","a",".","x",")">>
        size == <<"s","i","z","e","(","(","a",")","-","[",":","T","]","-",">","(","b",")",")">>
        count == <<"c","o","u","n","t","(","a",")">>
        dotted == <<"x",".","T","i","m","e","(","(","a",")","-","[",":","T","]","-",">","(","b",")",")">>
        exists_pattern == <<"E","X","I","S","T","S","(","(","a",")","-","[",":","T","]","-",">","(","b",")",")">>
        undirected == <<"s","i","z","e","(","(","a",")","-","-","(","b",")",")">>
    IN  { <<time>>, <<exists>>, <<size>>, <<count>>, <<time, exists>>, <<dotted>>,
          <<exists_pattern, undirected, exists, count>> }

\* the pattern parts of a tree, in the order of PatternTexts
PatternLists ==
    UNION { { [k \in 1..n |-> PatternTexts[f[k]]] :
                f \in { g \in [1..n -> 1..Len(PatternTexts)] :
                          \A k \in 1..(n - 1) : g[k] <= g[k + 1] } } :
            n \in 0..MaxParts }

PatternPartNode(pattern_text) ==
    RuleContext(RuleName.patternPart, << RuleContext(RuleName.patternElem, <<Terminal(pattern_text)>>) >>)

MatchNode(pattern_text) ==
    RuleContext(RuleName.matchSt,
        << Terminal(Keyword.match),
           RuleContext(RuleName.patternWhere,
               << RuleContext(RuleName.pattern, <<PatternPartNode(pattern_text)>>) >>) >>)

FunctionNode(text) == RuleContext(RuleName.functionInvocation, <<Terminal(text)>>)

\* EXISTS { pattern } written as the value of a property of a node: the
\* pattern contexts of the subquery lie inside the pattern part of the node
SubqueryExistNode(pattern_text) ==
    RuleContext(RuleName.subqueryExist,
        << Terminal(Keyword.exists), Terminal(<<"{">>),
           RuleContext(RuleName.patternWhere,
               << RuleContext(RuleName.pattern, <<PatternPartNode(pattern_text)>>) >>),
           Terminal(<<"}">>) >>)

\* the pattern part of (a:A{k:EXISTS{pattern}})
NestedPatternPartNode(pattern_text) ==
    RuleContext(RuleName.patternPart,
        << RuleContext(RuleName.patternElem,
               << Terminal(<<"(","a",":","A","{","k",":">>),
                  SubqueryExistNode(pattern_text),
                  Terminal(<<"}",")">>) >>) >>)

\* MATCH (a:A{k:EXISTS{pattern}}) RETURN
NestedTree(pattern_text) ==
    RuleContext(RuleName.script,
        << RuleContext(RuleName.query,
               << RuleContext(RuleName.matchSt,
                      << Terminal(Keyword.match),
                         RuleContext(RuleName.patternWhere,
                             << RuleContext(RuleName.pattern,
                                    <<NestedPatternPartNode(pattern_text)>>) >>) >>),
                  RuleContext(RuleName.returnSt, <<Terminal(Keyword.return)>>) >>) >>)

\* the patterns that are nested: (a:A)<-[:T]-(b:B) and (a)-[:T]->(b:B)
NestedPatterns == { PatternTexts[2], PatternTexts[3] }

Tree(patterns, funcs) ==
    RuleContext(RuleName.script,
        << RuleContext(RuleName.query,
               [k \in 1..Len(patterns) |-> MatchNode(patterns[k])]
               \o << RuleContext(RuleName.returnSt,
                         <<Terminal(Keyword.return)>>
                         \o [k \in 1..Len(funcs) |-> FunctionNode(funcs[k])]) >>) >>)

Trees ==
    { Tree(ps, <<>>) : ps \in PatternLists }
    \cup { Tree(<<p>>, fs) : p \in FunctionTreePatterns, fs \in FuncLists }
    \cup { NestedTree(p) : p \in NestedPatterns }

SegmentTrees == { Tree(ps, <<>>) : ps \in { qs \in PatternLists : Len(qs) <= 1 } }

ListenerErrors == { <<"line 1:0 mismatched input">>, <<"line 1:7 no viable alternative">> }

Verdicts(trees) ==
    { [errors |-> <<>>, tree |-> t] : t \in trees }
    \cup { [errors |-> es, tree |-> NoTree] : es \in ListenerErrors }

\* ------------------------------------------------------------------------
\* CypherSchemaValidator.validate (validator.py)
\* ------------------------------------------------------------------------
\* the texts passed to validate:
\*   MATCH (a:A {x:1})-[:T]->(b:B)-[:T]->(a) WITH a RETURN a
\*   MATCH (a:!A) WITH a RETURN a
\*   MATCH (a) WHERE EXISTS{(a)--(b)} RETURN a
\*   MATCH (a:A) WITH a SET a.x =1;
\*   foo
Queries ==
    { <<"M","A","T","C","H"," ","(","a",":","A"," ","{","x",":","1","}",")","-","[",":","T","]","-",">","(","b",":","B",")","-","[",":","T","]","-",">","(","a",")"," ","W","I","T","H"," ","a"," ","R","E","T","U","R","N"," ","a">>,
      <<"M","A","T","C","H"," ","(","a",":","!","A",")"," ","W","I","T","H"," ","a"," ","R","E","T","U","R","N"," ","a">>,
      <<"M","A","T","C","H"," ","(","a",")"," ","W","H","E","R","E"," ","E","X","I","S","T","S","{","(","a",")","-","-","(","b",")","}"," ","R","E","T","U","R","N"," ","a">>,
      <<"M","A","T","C","H"," ","(","a",":","A",")"," ","W","I","T","H"," ","a"," ","S","E","T"," ","a",".","x"," ","=","1",";">>,
      <<"f","o","o">> }

LabelA == <<"A">>
LabelB == <<"B">>
TypeT == <<"T">>
TypeU == <<"U">>

Labels == { LabelA, LabelB }
Types == { TypeT, TypeU }
Directions == { "left_to_right", "right_to_left", "both", "undirected" }

\* edge lists given to GraphSchema.from_edges
SchemaSamples ==
    { << <<LabelA, TypeT, LabelB>> >>,
      << <<LabelA, TypeT, LabelB>>, <<LabelB, TypeU, LabelA>> >>,
      << <<LabelA, TypeT, LabelB>>, <<LabelB, TypeT, LabelA>> >> }

\* one iteration order per frozenset of the schema
PairOrders(gs) ==
    { f \in [DOMAIN gs -> UNION { Orderings(gs[r]) : r \in DOMAIN gs }] :
        \A r \in DOMAIN gs : f[r] \in Orderings(gs[r]) }

LabelOrders(var_labels) ==
    { f \in [DOMAIN var_labels ->
                UNION ({ Orderings(var_labels[v]) : v \in DOMAIN var_labels } \cup {{}})] :
        \A v \in DOMAIN var_labels : f[v] \in Orderings(var_labels[v]) }

NoOutcome == [kind |-> "none", message |-> <<>>, issues |-> <<>>, violations |-> <<>>]

\* schema.relationships.get(rel_type, frozenset()) iterated in its order
RECURSIVE AllowedPairsLoop(_, _, _, _)
AllowedPairsLoop(gs, order, rel_types, pairs) ==
    IF rel_types = <<>> THEN pairs
    ELSE LET its == IF Head(rel_types) \in DOMAIN gs THEN order[Head(rel_types)] ELSE <<>>
             RECURSIVE AddPairs(_, _)
             AddPairs(ps, acc) ==
                 IF ps = <<>> THEN acc
                 ELSE AddPairs(Tail(ps),
                               IF Head(ps) \in SeqRange(acc) THEN acc
                               ELSE Append(acc, Head(ps)))
         IN  AllowedPairsLoop(gs, order, Tail(rel_types), AddPairs(its, pairs))

_allowed_pairs(gs, order, rel_types) == AllowedPairsLoop(gs, order, rel_types, <<>>)

\* sep.join(parts)
RECURSIVE Join(_, _)
Join(parts, sep) ==
    IF parts = <<>> THEN <<>>
    ELSE IF Len(parts) = 1 THEN parts[1]
    ELSE parts[1] \o sep \o Join(Tail(parts), sep)

\* ------------------------------------------------------------------------
\* errors.py
\* ------------------------------------------------------------------------
\* the literal parts of the two message formats
Literal ==
    [ schema_header |-> <<"C","y","p","h","e","r"," ","s","c","h","e","m","a"," ","v","a","l","i","d","a","t","i","o","n"," ","f","a","i","l","e","d",":">>,
      invalid |-> <<"-"," ","I","n","v","a","l","i","d"," ","r","e","l","a","t","i","o","n","s","h","i","p",":"," ">>,
      via |-> <<" ","v","i","a"," ">>,
      allowed |-> <<"."," ","A","l","l","o","w","e","d",":"," ">>,
      pattern |-> <<"."," ","P","a","t","t","e","r","n",":"," ">>,
      rule |-> <<" ","[","r","u","l","e","=">>,
      hint |-> <<" "," ","H","i","n","t",":"," ">>,
      only |-> <<" ","i","s"," ","o","n","l","y"," ","a","l","l","o","w","e","d"," ","a","s"," ">>,
      check |-> <<"."," ","C","h","e","c","k"," ","d","i","r","e","c","t","i","o","n"," ","a","n","d"," ","n","o","d","e"," ","l","a","b","e","l","s",".">>,
      none |-> <<"n","o","n","e">>,
      compatibility_header |-> <<"C","y","p","h","e","r"," ","u","s","e","s"," ","c","o","n","s","t","r","u","c","t","s"," ","n","o","t"," ","s","u","p","p","o","r","t","e","d"," ","b","y"," ","M","e","m","g","r","a","p","h",":","\n">> ]

Arrow(direction) ==
    IF direction = "left_to_right" THEN <<"-", ">">>
    ELSE IF direction = "right_to_left" THEN <<"<", "-">>
    ELSE IF direction = "both" THEN <<"<", "-", ">">>
    ELSE <<"-">>

\* a faulty variant: no pairs are rendered as the empty text
_format_allowed_pairs_blank(pairs) ==
    Join([k \in 1..Len(pairs) |-> pairs[k][1] \o <<" ", "-", ">", " ">> \o pairs[k][2]],
         <<";", " ">>)

_format_allowed_pairs(pairs) ==
    IF pairs = <<>> THEN Literal.none
    ELSE Join([k \in 1..Len(pairs) |-> pairs[k][1] \o <<" ", "-", ">", " ">> \o pairs[k][2]],
              <<";", " ">>)

\* the two lines _format_violations appends for one violation
ViolationLines(violation) ==
    LET allowed == _format_allowed_pairs(violation.allowed_pairs) IN
    << Literal.invalid \o Join(violation.left_labels, <<",">>) \o <<" ">>
           \o Arrow(violation.direction) \o <<" ">>
           \o Join(violation.right_labels, <<",">>) \o Literal.via \o violation.rel_type
           \o Literal.allowed \o allowed \o Literal.pattern \o violation.snippet
           \o Literal.rule \o violation.rule_path \o <<"]">>,
       Literal.hint \o violation.rel_type \o Literal.only \o allowed \o Literal.check >>

RECURSIVE FormatLoop(_, _)
FormatLoop(violation_list, lines) ==
    IF violation_list = <<>> THEN lines
    ELSE FormatLoop(Tail(violation_list), lines \o ViolationLines(Head(violation_list)))

_format_violations(violation_list) ==
    Join(FormatLoop(violation_list, <<Literal.schema_header>>), <<"\n">>)

\* what validate raised; message is str() of the exception
SchemaValidationError(violation_list) ==
    [kind |-> "SchemaValidationError", message |-> _format_violations(violation_list),
     issues |-> <<>>, violations |-> violation_list]

CypherCompatibilityError(issues) ==
    [kind |-> "CypherCompatibilityError",
     message |-> Literal.compatibility_header
                    \o Join([k \in 1..Len(issues) |-> <<"-", " ">> \o issues[k]], <<"\n">>),
     issues |-> issues, violations |-> <<>>]

\* the pattern contexts of the trees, as (rule_path, pattern_text) pairs
RECURSIVE PatternPartsOf(_)
PatternPartsOf(contexts) ==
    IF contexts = <<>> THEN <<>>
    ELSE (IF _is_pattern_context(Head(contexts).rule_name)
          THEN << <<Join(Head(contexts).rule_path, <<"/">>), Head(contexts).ctx.text>> >>
          ELSE <<>>)
         \o PatternPartsOf(Tail(contexts))

RECURSIVE CollectPatternParts(_)
CollectPatternParts(trees) ==
    IF trees = <<>> THEN <<>>
    ELSE PatternPartsOf(_iter_rule_contexts(Head(trees).tree))
            \o CollectPatternParts(Tail(trees))

\* a faulty variant: a relationship is skipped only when both sides are unresolved
Unresolved_both(left_labels, right_labels) == left_labels = <<>> /\ right_labels = <<>>

\* if not left_labels or not right_labels: continue
Unresolved(left_labels, right_labels) == left_labels = <<>> \/ right_labels = <<>>

\* the inner loop of validate over the relationships of one pattern text
RECURSIVE RelViolations(_, _, _, _, _, _)
RelViolations(gs, order, rule_path, rel_uses, var_labels, lab_order) ==
    IF rel_uses = <<>> THEN <<>>
    ELSE LET rel_use == Head(rel_uses)
             rel_types == _extract_rel_types(rel_use.rel_text)
             left_labels == _resolve_labels(rel_use.left_labels, rel_use.left_var,
                                            var_labels, lab_order)
             right_labels == _resolve_labels(rel_use.right_labels, rel_use.right_var,
                                             var_labels, lab_order)
             direction == _direction_from_match(rel_use.left_dir, rel_use.right_dir)
         IN  (IF rel_types = <<>> THEN <<>>
              ELSE IF Unresolved(left_labels, right_labels) THEN <<>>
              ELSE IF _is_allowed(gs, rel_types, left_labels, right_labels, direction)
              THEN <<>>
              ELSE << [rel_type |-> Join(rel_types, <<"|">>),
                       left_labels |-> left_labels,
                       right_labels |-> right_labels,
                       direction |-> direction,
                       snippet |-> _format_snippet(rel_use),
                       rule_path |-> rule_path,
                       allowed_pairs |-> _allowed_pairs(gs, order, rel_types)] >>)
             \o RelViolations(gs, order, rule_path, Tail(rel_uses), var_labels, lab_order)

RECURSIVE AllViolations(_, _, _, _, _)
AllViolations(gs, order, parts, var_labels, lab_order) ==
    IF parts = <<>> THEN <<>>
    ELSE RelViolations(gs, order, Head(parts)[1], _iter_relationships(Head(parts)[2]),
                       var_labels, lab_order)
            \o AllViolations(gs, order, Tail(parts), var_labels, lab_order)

NormIdle == [text |-> <<>>, once |-> Nothing, twice |-> Nothing]
RuleIdle == [edges |-> <<>>, rel_types |-> <<>>, left_labels |-> <<>>,
             right_labels |-> <<>>, left_dir |-> "-", right_dir |-> "-",
             schema |-> Nothing, direction |-> Some("undirected"), result |-> Nothing]

Init ==
    /\ edges \in SchemaSamples
    /\ schema = from_edges(edges)
    /\ pair_order \in PairOrders(schema)
    /\ cypher \in Queries
    /\ pc = "parse_raw"
    /\ exc = Nothing
    /\ normalized = Nothing
    /\ segments = <<>>
    /\ asts = <<>>
    /\ used_fallback = FALSE
    /\ compatibility_issues = <<>>
    /\ pattern_parts = <<>>
    /\ variable_labels = EmptyMap
    /\ iter_order = EmptyMap
    /\ violations = <<>>
    /\ outcome = NoOutcome
    /\ ran = <<>>
    /\ parse_log = <<>>
    /\ norm = NormIdle
    /\ rule = RuleIdle
    /\ scan = Nothing /\ adk = Nothing /\ mcp = Nothing
    /\ frames = Nothing

\* ------------------------------------------------------------------------
\* The depth of calls the other steps of validate need, in the same units and
\* counted below validate's frame. RecursionInit gives validate between 2 and
\* MaxNesting + 2 nested calls.
\* ------------------------------------------------------------------------
MaxNesting == 3

\* the step needs more nested calls than the recursion limit still allows
Overflows(need) == frames # Nothing /\ need > frames[1]

\* the interpreter raises RecursionError: it is no CypherParseError and no
\* CypherValidationError, no except clause of validate or of
\* _parse_with_fallback catches it
RecursionErrorRaised == [NoOutcome EXCEPT !.kind = "RecursionError"]

\* a depth that no limit of RecursionInit allows
DeepCall == MaxNesting + 3

\* what a call into the parser, into its trees or into logging can need: the
\* library is not part of src/. It is at least what the code of src/ puts
\* under the call by itself (least), and above any limit considered here when
\* the library recurses (the ANTLR runtime, logging with its handlers)
LibraryFrames(least) == { least, DeepCall }

\* parse_cypher(text): its frame and, for a tree, CypherAst(...) with the
\* generated __init__ and object.__setattr__ (line 42); for a syntax error
\* parser.script(), listener.syntaxError and errors.append (lines 39, 27-28)
parse_cypher_frames == LibraryFrames(4)

\* re.search(pattern, text, flags): search, _compile, and the value property
\* of the flags with its getter when re holds the compiled pattern in its
\* cache; compiling one of the patterns of the code needs 8 calls or more
re_search_frames(cached) == IF cached THEN 4 ELSE 8

\* SplitStep, keeping in need the deepest call so far
SplitFramesStep(text, target, st, warm) ==
    LET i == st.i
        char == At(text, i)
        nd == DepthStep(char, st.d)
        next == SplitStep(text, target, st)
        closing == IF char \in {")", "]", "}"} THEN 3 ELSE 2
        boundary == IF nd = <<0, 0, 0>> /\ upper_startswith(text, target, i)
                    THEN 1 + _is_word_boundary_frames(text, i, i + Len(target), warm)
                    ELSE 2
    IN  IF InQuotes(st, char) THEN next
        ELSE [next EXCEPT !.need = Deeper(@, Deeper(closing, boundary))]

RECURSIVE SplitFramesLoop(_, _, _, _, _, _)
SplitFramesLoop(text, target, lo, hi, st, warm) ==
    IF hi <= lo THEN st
    ELSE IF hi = lo + 1
    THEN (IF st.i = lo THEN SplitFramesStep(text, target, st, warm) ELSE st)
    ELSE LET left == SplitFramesLoop(text, target, lo, (lo + hi) \div 2, st, warm) IN
         IF left.i >= hi THEN left
         ELSE SplitFramesLoop(text, target, (lo + hi) \div 2, hi, left, warm)

\* _split_top_level_keyword: the frame, text.upper() and the above
_split_top_level_keyword_frames(text, keyword, warm) ==
    SplitFramesLoop(text, upper(keyword), 0, Len(text),
                    [i |-> 0, start |-> 0, d |-> <<0, 0, 0>>, in_string |-> FALSE,
                     in_backtick |-> FALSE, segs |-> <<>>, need |-> 2],
                    warm).need

\* _strip_to_first_clause: the frame and _CLAUSE_START_RE.search, compiled
\* when the module is imported
_strip_to_first_clause_frames == 2

\* _ensure_return_clause: the frame and re.search
_ensure_return_clause_frames(cached) == 1 + re_search_frames(cached)

\* one iteration of the loop of _parse_with_fallback, under its frame: a
\* segment without a clause is dropped after _strip_to_first_clause
_parse_with_fallback_frames(segment, cached, parser) ==
    1 + IF _strip_to_first_clause(segment) = <<>> THEN _strip_to_first_clause_frames
        ELSE Deeper(_ensure_return_clause_frames(cached), parser)

\* CypherValidationError(str(exc)): built by the interpreter
CypherValidationError_frames == 1

\* self._logger.warning(...): warning and isEnabledFor when the logger has
\* cached that the level is disabled. Once a warning of this call of validate
\* has been logged (logged), the next one is logged from the same frame by
\* the same logger and fits as well
warning_frames(logged) == IF logged THEN { 2 } ELSE LibraryFrames(2)

\* for ... in _iter_rule_contexts(tree, parser): the generator, stack.extend
\* and its generator expression; node.getRuleIndex() is the parser's. A tree
\* that _find_compatibility_issues has walked (walked) is walked again by the
\* same generator one frame nearer to validate, so that walk fits as well
_iter_rule_contexts_frames(walked) == IF walked THEN { 3 } ELSE LibraryFrames(3)

\* ctx.getText() of a context: the parser's, one frame or as deep as the
\* subtree of the context
getText_frames == LibraryFrames(1)

\* _find_compatibility_issues: the frame, the calls of re.search, which are
\* made whatever the text, and the loop over the contexts of the tree; the
\* other calls (_strip_string_literals, _case_when_has_multiple_values,
\* _looks_like_pattern_expression) need 4 at most
_find_compatibility_issues_frames(cached, contexts) ==
    1 + Deeper(re_search_frames(cached), contexts)

\* CypherCompatibilityError(issues): the call of the class, __init__, join
\* and its generator expression
CypherCompatibilityError_frames == 4

\* a "(" outside the string literals: _parse_node is called
HasNode(pattern_text) == HasChar(_strip_string_literals(pattern_text), "(")

\* _collect_variable_labels(pattern_texts): the frame and the comprehension
\* of the result; with a text _iter_nodes, _strip_string_literals and append;
\* with a node _iter_nodes, _parse_node, the call of _NodeUse, its __init__
\* and object.__setattr__
_collect_variable_labels_frames(pattern_texts) ==
    IF \E k \in 1..Len(pattern_texts) : HasNode(pattern_texts[k]) THEN 6
    ELSE IF pattern_texts # <<>> THEN 4
    ELSE 2

\* the loop of validate over pattern_parts: _iter_relationships,
\* _strip_string_literals and append; with a node _iter_relationships,
\* _parse_node, the call of _NodeUse, its __init__ and object.__setattr__; the
\* calls made for a relationship (_extract_rel_types, _is_allowed,
\* SchemaViolation, ...) need 4 at most
_iter_relationships_frames(parts) ==
    IF \E k \in 1..Len(parts) : HasNode(parts[k][2]) THEN 5
    ELSE IF parts # <<>> THEN 3
    ELSE 0

\* SchemaValidationError(violations): the call of the class, __init__,
\* _format_violations and join; with allowed pairs _format_allowed_pairs, join
\* and its generator expression
SchemaValidationError_frames(violation_list) ==
    IF \E k \in 1..Len(violation_list) : violation_list[k].allowed_pairs # <<>> THEN 6
    ELSE 4

\* a faulty variant: the except branch is entered whatever the parser answered
Caught_always(result) == TRUE

\* except CypherParseError: parse_cypher raised
Caught(result) == ~result.ok

\* asts = [parse_cypher(cypher)], or the except branch is entered
ParseRaw ==
    /\ pc = "parse_raw"
    /\ \E verdict \in Verdicts(Trees), need \in parse_cypher_frames :
         IF Overflows(need)
         THEN /\ outcome' = RecursionErrorRaised
              /\ pc' = "done"
              /\ UNCHANGED <<parse_log, asts, exc>>
         ELSE LET result == parse_cypher(cypher, verdict) IN
              /\ parse_log' = Append(parse_log, LogEntry(result))
              /\ outcome' = outcome
              /\ IF Caught(result)
                 THEN /\ asts' = asts
                      /\ exc' = Some(result.message)
                      /\ pc' = "normalize"
                 ELSE /\ asts' = <<result>>
                      /\ exc' = exc
                      /\ pc' = "compatibility"
    /\ ran' = Append(ran, "parse_raw")
    /\ UNCHANGED <<edges, schema, pair_order, frames, cypher, normalized, segments, used_fallback,
                   compatibility_issues, pattern_parts, variable_labels, iter_order,
                   violations, norm, rule,
                   scan, adk, mcp>>

\* normalized = _normalize_exists_subqueries(cypher)
Normalize ==
    /\ pc = "normalize"
    /\ \E warm \in BOOLEAN :
          IF Overflows(_normalize_exists_subqueries_frames(cypher, warm))
          THEN /\ outcome' = RecursionErrorRaised
               /\ pc' = "done"
               /\ UNCHANGED normalized
          ELSE /\ normalized' = Some(_normalize_exists_subqueries(cypher))
               /\ pc' = "parse_normalized"
               /\ UNCHANGED outcome
    /\ ran' = Append(ran, "normalize")
    /\ UNCHANGED <<edges, schema, pair_order, frames, cypher, exc, segments, asts,
                   used_fallback, compatibility_issues, pattern_parts, variable_labels,
                   iter_order, violations, parse_log, norm, rule,
                   scan, adk, mcp>>

\* asts = [parse_cypher(normalized)], or the inner except branch is entered
ParseNormalized ==
    /\ pc = "parse_normalized"
    /\ \E verdict \in Verdicts(Trees), need \in parse_cypher_frames :
         IF Overflows(need)
         THEN /\ outcome' = RecursionErrorRaised
              /\ pc' = "done"
              /\ UNCHANGED <<parse_log, asts>>
         ELSE LET result == parse_cypher(normalized[1], verdict) IN
              /\ parse_log' = Append(parse_log, LogEntry(result))
              /\ outcome' = outcome
              /\ IF Caught(result)
                 THEN /\ asts' = asts
                      /\ pc' = "fallback"
                 ELSE /\ asts' = <<result>>
                      /\ pc' = "compatibility"
    /\ ran' = Append(ran, "parse_normalized")
    /\ UNCHANGED <<edges, schema, pair_order, frames, cypher, exc, normalized, segments,
                   used_fallback, compatibility_issues, pattern_parts, variable_labels,
                   iter_order, violations, norm, rule,
                   scan, adk, mcp>>

\* _parse_with_fallback(normalized): the split at top-level WITH
FallbackSplit ==
    /\ pc = "fallback"
    /\ \E warm \in BOOLEAN :
          \* the frame of _parse_with_fallback, then _split_top_level_keyword
          IF Overflows(1 + _split_top_level_keyword_frames(normalized[1], Keyword.with, warm))
          THEN /\ outcome' = RecursionErrorRaised
               /\ pc' = "done"
               /\ UNCHANGED segments
          ELSE /\ segments' = _split_top_level_keyword(normalized[1], Keyword.with)
               /\ pc' = "segment"
               /\ UNCHANGED outcome
    /\ ran' = Append(ran, "fallback")
    /\ UNCHANGED <<edges, schema, pair_order, frames, cypher, exc, normalized, asts, used_fallback,
                   compatibility_issues, pattern_parts, variable_labels, iter_order,
                   violations, parse_log, norm, rule,
                   scan, adk, mcp>>

\* one iteration of the loop over the segments
FallbackSegment ==
    /\ pc = "segment"
    /\ segments # <<>>
    /\ \E cached \in BOOLEAN, parser \in parse_cypher_frames :
         IF Overflows(_parse_with_fallback_frames(Head(segments), cached, parser))
         THEN /\ outcome' = RecursionErrorRaised
              /\ pc' = "done"
              /\ UNCHANGED <<asts, parse_log, segments>>
         ELSE /\ LET trimmed == _strip_to_first_clause(Head(segments)) IN
                 IF Len(trimmed) = 0
                 THEN /\ asts' = asts
                      /\ parse_log' = parse_log
                 ELSE \E verdict \in Verdicts(SegmentTrees) :
                        LET result == parse_cypher(_ensure_return_clause(trimmed), verdict) IN
                        /\ parse_log' = Append(parse_log, LogEntry(result))
                        /\ asts' = IF Caught(result) THEN asts ELSE Append(asts, result)
              /\ segments' = Tail(segments)
              /\ UNCHANGED <<pc, outcome>>
    /\ UNCHANGED <<edges, schema, pair_order, frames, cypher, exc, normalized, used_fallback,
                   compatibility_issues, pattern_parts, variable_labels, iter_order,
                   violations, ran, norm, rule,
                   scan, adk, mcp>>

\* a faulty variant: the message of the latest failure is reported
SyntaxErrorMessage_latest == parse_log[Len(parse_log)].message

\* str(exc), exc the exception of the raw parse
SyntaxErrorMessage == exc[1]

\* back in validate: no tree raises CypherValidationError(str(exc)); with a
\* tree used_fallback is set and the warning is logged
FallbackDone ==
    /\ pc = "segment"
    /\ segments = <<>>
    /\ \E warning \in warning_frames(FALSE) :
         IF Overflows(IF asts = <<>> THEN CypherValidationError_frames ELSE warning)
         THEN /\ outcome' = RecursionErrorRaised
              /\ pc' = "done"
              /\ used_fallback' = (asts # <<>>)
         ELSE IF asts = <<>>
         THEN /\ outcome' = [NoOutcome EXCEPT !.kind = "CypherValidationError",
                                              !.message = SyntaxErrorMessage]
              /\ pc' = "done"
              /\ used_fallback' = used_fallback
         ELSE /\ used_fallback' = TRUE
              /\ pc' = "compatibility"
              /\ outcome' = outcome
    /\ UNCHANGED <<edges, schema, pair_order, frames, cypher, exc, normalized, segments, asts,
                   compatibility_issues, pattern_parts, variable_labels, iter_order,
                   violations, ran, parse_log, norm, rule,
                   scan, adk, mcp>>

\* a faulty variant: issues found after a fallback are logged, not raised
RaiseCompatibility_unless_fallback(issues) == issues # <<>> /\ ~used_fallback

\* if compatibility_issues: raise CypherCompatibilityError
RaiseCompatibility(issues) == issues # <<>>

Compatibility ==
    /\ pc = "compatibility"
    /\ \E issues \in { _find_compatibility_issues(
                            cypher, IF ~used_fallback THEN Some(asts[1].tree) ELSE Nothing) },
          cached \in BOOLEAN,
          contexts \in _iter_rule_contexts_frames(FALSE),
          warning \in warning_frames(TRUE) :
           \* the tree is walked unless the fallback was used (getText of a
           \* function invocation is counted with the walk); with issues the
           \* warning is logged after a fallback and the exception is built
           IF Overflows(_find_compatibility_issues_frames(
                            cached, IF used_fallback THEN 0 ELSE contexts))
           THEN /\ outcome' = RecursionErrorRaised
                /\ pc' = "done"
                /\ UNCHANGED compatibility_issues
           ELSE IF /\ issues # <<>>
                   /\ Overflows(Deeper(CypherCompatibilityError_frames,
                                       IF used_fallback THEN warning ELSE 0))
           \* compatibility_issues is assigned before lines 59-64 raise
           THEN /\ outcome' = RecursionErrorRaised
                /\ pc' = "done"
                /\ compatibility_issues' = issues
           ELSE /\ compatibility_issues' = issues
                /\ IF RaiseCompatibility(issues)
                   THEN /\ outcome' = CypherCompatibilityError(issues)
                        /\ pc' = "done"
                   ELSE /\ outcome' = outcome
                        /\ pc' = "extract"
    /\ ran' = Append(ran, "compatibility")
    /\ UNCHANGED <<edges, schema, pair_order, frames, cypher, exc, normalized, segments, asts,
                   used_fallback, pattern_parts, variable_labels, iter_order, violations,
                   parse_log, norm, rule,
                   scan, adk, mcp>>

\* pattern_parts and variable_labels
Extract ==
    /\ pc = "extract"
    /\ \E parts \in { CollectPatternParts(asts) },
          contexts \in _iter_rule_contexts_frames(~used_fallback),
          text \in getText_frames :
         \* the walk of lines 67-68 overflows at the first node of the first
         \* tree, before anything is appended to pattern_parts
         IF Overflows(contexts)
         THEN /\ outcome' = RecursionErrorRaised
              /\ pc' = "done"
              /\ pattern_parts' = <<>>
              /\ UNCHANGED <<variable_labels, iter_order>>
         \* line 70 calls getText on every pattern context of the trees: the
         \* parts of the contexts before the one whose getText overflows are in
         \* pattern_parts
         ELSE IF parts # <<>> /\ Overflows(text)
         THEN /\ outcome' = RecursionErrorRaised
              /\ pc' = "done"
              /\ \E k \in 1..Len(parts) : pattern_parts' = SubSeq(parts, 1, k - 1)
              /\ UNCHANGED <<variable_labels, iter_order>>
         \* lines 72-74 raise with pattern_parts filled and variable_labels
         \* not assigned
         ELSE IF Overflows(_collect_variable_labels_frames(
                               [k \in 1..Len(parts) |-> parts[k][2]]))
         THEN /\ outcome' = RecursionErrorRaised
              /\ pc' = "done"
              /\ pattern_parts' = parts
              /\ UNCHANGED <<variable_labels, iter_order>>
         ELSE \E labels \in { _collect_variable_labels([k \in 1..Len(parts) |-> parts[k][2]]) } :
                /\ pattern_parts' = parts
                /\ variable_labels' = labels
                /\ iter_order' \in LabelOrders(labels)
                /\ pc' = "schema"
                /\ outcome' = outcome
    /\ ran' = Append(ran, "extract")
    /\ UNCHANGED <<edges, schema, pair_order, frames, cypher, exc, normalized, segments, asts,
                   used_fallback, compatibility_issues, violations, parse_log,
                   norm, rule,
                   scan, adk, mcp>>

\* the loop over pattern_parts, then raise or return
CheckSchema ==
    /\ pc = "schema"
    /\ \E found \in { AllViolations(schema, pair_order, pattern_parts,
                                      variable_labels, iter_order) } :
           \* the loop overflows in the first pattern part that needs more
           \* than is left, with the violations of the parts before it
           IF Overflows(_iter_relationships_frames(pattern_parts))
           THEN LET first == CHOOSE k \in 1..Len(pattern_parts) :
                                 /\ Overflows(_iter_relationships_frames(<<pattern_parts[k]>>))
                                 /\ \A j \in 1..(k - 1) :
                                       ~Overflows(_iter_relationships_frames(<<pattern_parts[j]>>))
                IN  /\ outcome' = RecursionErrorRaised
                    /\ violations' = AllViolations(schema, pair_order,
                                                   SubSeq(pattern_parts, 1, first - 1),
                                                   variable_labels, iter_order)
           \* line 107 raises with every violation appended
           ELSE IF found # <<>> /\ Overflows(SchemaValidationError_frames(found))
           THEN /\ outcome' = RecursionErrorRaised
                /\ violations' = found
           ELSE /\ violations' = found
                /\ outcome' = IF found # <<>>
                              THEN SchemaValidationError(found)
                              ELSE [NoOutcome EXCEPT !.kind = "return"]
    /\ pc' = "done"
    /\ ran' = Append(ran, "schema")
    /\ UNCHANGED <<edges, schema, pair_order, frames, cypher, exc, normalized, segments, asts,
                   used_fallback, compatibility_issues, pattern_parts, variable_labels,
                   iter_order, parse_log, norm, rule,
                   scan, adk, mcp>>

Next ==
    \/ ParseRaw
    \/ Normalize
    \/ ParseNormalized
    \/ FallbackSplit
    \/ FallbackSegment
    \/ FallbackDone
    \/ Compatibility
    \/ Extract
    \/ CheckSchema

Spec == Init /\ [][Next]_vars

\* ------------------------------------------------------------------------
\* Properties of validate
\* ------------------------------------------------------------------------
\* the pattern texts of the pattern contexts of the trees
PatternTextsOf(trees) ==
    LET parts == CollectPatternParts(trees) IN [k \in 1..Len(parts) |-> parts[k][2]]

\* the pattern texts a tree of the parser can hold
KnownPatternTexts ==
    SeqRange(PatternTexts) \cup FunctionTreePatterns
    \cup { NestedPatternPartNode(p).text : p \in NestedPatterns }

\* _iter_relationships and _iter_nodes of each of them, computed once
RelationshipsOfText == [t \in KnownPatternTexts |-> SeqRange(_iter_relationships(t))]
NodesOfText == [t \in KnownPatternTexts |-> SeqRange(_iter_nodes(t))]

\* every relationship written in these texts
RelUses(trees) ==
    UNION { RelationshipsOfText[t] : t \in SeqRange(PatternTextsOf(trees)) }

\* every node written in these texts
NodeUses(trees) ==
    UNION { NodesOfText[t] : t \in SeqRange(PatternTextsOf(trees)) }

\* the labels that some node occurrence of var declares
DeclaredLabels(trees, var) ==
    UNION { SeqRange(n.labels) : n \in { m \in NodeUses(trees) : m.var = Some(var) } }

\* the labels one side of a relationship stands for
ResolvedSet(trees, explicit, var) ==
    IF explicit # <<>> THEN SeqRange(explicit)
    ELSE IF var # Nothing /\ Len(var[1]) > 0 THEN DeclaredLabels(trees, var[1])
    ELSE {}

LeftSet(trees, u) == ResolvedSet(trees, u.left_labels, u.left_var)
RightSet(trees, u) == ResolvedSet(trees, u.right_labels, u.right_var)

\* the edge <<src, rel, dst>> occurs in the edge list
Declared(edge_list, rel_type, src, dst) ==
    \E k \in 1..Len(edge_list) : edge_list[k] = <<src, rel_type, dst>>

\* some type and some label pair is declared in an orientation d reads
Admits(edge_list, T, L, R, d) ==
    \E t \in T, l \in L, r \in R :
        \/ d \in {"left_to_right", "both", "undirected"} /\ Declared(edge_list, t, l, r)
        \/ d \in {"right_to_left", "both", "undirected"} /\ Declared(edge_list, t, r, l)

\* the relationship has a type and labels on both sides
Checked(trees, u) ==
    /\ _extract_rel_types(u.rel_text) # <<>>
    /\ LeftSet(trees, u) # {}
    /\ RightSet(trees, u) # {}

Allowed(edge_list, trees, u) ==
    Admits(edge_list, SeqRange(_extract_rel_types(u.rel_text)), LeftSet(trees, u),
           RightSet(trees, u), _direction_from_match(u.left_dir, u.right_dir))

\* C1: validate returns without error iff (a) a parse tree was obtained, (b) the
\* compatibility issue list is empty and (c) every extracted relationship with
\* an edge type and resolved labels on both sides is allowed by the schema
\* under its direction
C1_AdmitsIff ==
    pc = "done" =>
        (outcome.kind = "return" <=>
            /\ asts # <<>>
            /\ compatibility_issues = <<>>
            /\ \A u \in RelUses(asts) : Checked(asts, u) => Allowed(edges, asts, u))

\* a query admitted after the segmented fallback, with two trees, whose
\* relationship takes its left label from the other tree
C1_Witness ==
    /\ pc = "done"
    /\ outcome.kind = "return"
    /\ used_fallback
    /\ Len(asts) = 2
    /\ \E u \in RelUses(asts) : Checked(asts, u) /\ u.left_labels = <<>>

\* C2: a failing validate reports one error kind, that of the first failing
\* stage in the order Syntax, Compatibility, Schema: a Compatibility error
\* whenever the issue list is non-empty, and then no schema check runs and no
\* violation is reported; a Schema error only with an empty issue list; a
\* Syntax error only without a parse tree, and then neither check runs
C2_FirstFailingStage ==
    pc = "done" =>
        /\ outcome.kind \in { "return", "CypherValidationError",
                              "CypherCompatibilityError", "SchemaValidationError" }
        /\ asts = <<>> <=> outcome.kind = "CypherValidationError"
        /\ compatibility_issues # <<>> <=> outcome.kind = "CypherCompatibilityError"
        /\ outcome.kind = "CypherCompatibilityError" =>
              /\ outcome.issues = compatibility_issues
              /\ "extract" \notin SeqRange(ran)
              /\ "schema" \notin SeqRange(ran)
              /\ violations = <<>>
              /\ outcome.violations = <<>>
        /\ outcome.kind = "SchemaValidationError" =>
              /\ asts # <<>>
              /\ compatibility_issues = <<>>
              /\ outcome.violations # <<>>
              /\ outcome.issues = <<>>
        /\ outcome.kind = "CypherValidationError" =>
              /\ "compatibility" \notin SeqRange(ran)
              /\ "schema" \notin SeqRange(ran)
              /\ outcome.issues = <<>>
              /\ outcome.violations = <<>>

\* a Compatibility error for a query whose tree holds a relationship the
\* schema does not allow
C2_Witness ==
    /\ pc = "done"
    /\ outcome.kind = "CypherCompatibilityError"
    /\ \E u \in RelUses(asts) : Checked(asts, u) /\ ~Allowed(edges, asts, u)

\* the normalized text and the textual issues of each query, computed once
NormalizedQuery == [q \in Queries |-> _normalize_exists_subqueries(q)]
TextualIssuesOfQuery == [q \in Queries |-> TextualIssues(_strip_string_literals(q))]

\* the position of a stage in the history, 0 when it has not run
Position(stage) ==
    IF stage \in SeqRange(ran) THEN CHOOSE k \in 1..Len(ran) : ran[k] = stage ELSE 0

\* C3: the parse stages run in the order raw parse, normalize and parse of the
\* normalized text, segmented fallback, each only if every earlier parse
\* failed; the fallback is used only when the raw and the normalized text both
\* failed to parse, and after a successful raw parse nothing is normalized or
\* segmented
C3_ParseOrder ==
    /\ ran # <<>> => ran[1] = "parse_raw" /\ parse_log[1].text = cypher
    /\ \A k \in 2..Len(ran) : ran[k] # "parse_raw"
    /\ "normalize" \in SeqRange(ran) =>
          /\ Position("normalize") = Position("parse_raw") + 1
          /\ ~parse_log[1].ok
    /\ "parse_normalized" \in SeqRange(ran) =>
          /\ Position("parse_normalized") = Position("normalize") + 1
          /\ parse_log[2].text = NormalizedQuery[cypher]
    /\ "fallback" \in SeqRange(ran) =>
          /\ Position("fallback") = Position("parse_normalized") + 1
          /\ ~parse_log[1].ok
          /\ ~parse_log[2].ok
    /\ (used_fallback \/ segments # <<>>) => "fallback" \in SeqRange(ran)
    /\ \A k \in 3..Len(parse_log) : "fallback" \in SeqRange(ran)
    /\ (parse_log # <<>> /\ parse_log[1].ok) =>
          /\ Len(parse_log) = 1
          /\ normalized = Nothing
          /\ segments = <<>>
          /\ ~used_fallback
          /\ "normalize" \notin SeqRange(ran)
          /\ "parse_normalized" \notin SeqRange(ran)
          /\ "fallback" \notin SeqRange(ran)
    /\ (Len(parse_log) >= 2 /\ parse_log[2].ok) =>
          /\ Len(parse_log) = 2
          /\ segments = <<>>
          /\ ~used_fallback
          /\ "fallback" \notin SeqRange(ran)

\* a validation that went through all three parse stages and parsed both
\* segments
C3_Witness ==
    /\ pc = "done"
    /\ used_fallback
    /\ Len(parse_log) = 4
    /\ parse_log[3].ok
    /\ parse_log[4].ok

\* C4: when the raw and the normalized parse fail and the fallback yields no
\* tree, validate fails with a CypherValidationError whose message is that of
\* the raw parse failure
C4_OriginalSyntaxError ==
    (pc = "done" /\ "fallback" \in SeqRange(ran) /\ asts = <<>>) =>
        /\ outcome.kind = "CypherValidationError"
        /\ outcome.message = parse_log[1].message
        /\ ~parse_log[1].ok

\* the raw parse, the normalized parse and a segment each failed, with
\* different messages
C4_Witness ==
    /\ pc = "done"
    /\ outcome.kind = "CypherValidationError"
    /\ Len(parse_log) >= 3
    /\ parse_log[2].message # parse_log[1].message
    /\ parse_log[Len(parse_log)].message # parse_log[1].message

\* the issue messages the function-invocation rules can produce
AstIssueMessages ==
    { IssueFunction(f) : f \in _UNSUPPORTED_FUNCTIONS }
        \cup { Issue.exists_property, Issue.pattern_expression }

\* C5: after the segmented fallback the textual rules still run on the
\* original query text, and can reject it, while no function-invocation issue
\* is produced; without the fallback the textual and the AST rules both run
C5_FallbackKeepsTextualRules ==
    "compatibility" \in SeqRange(ran) =>
        /\ used_fallback =>
              /\ compatibility_issues = TextualIssuesOfQuery[cypher]
              /\ \A k \in 1..Len(compatibility_issues) :
                    compatibility_issues[k] \notin AstIssueMessages
        /\ ~used_fallback =>
              compatibility_issues =
                  TextualIssuesOfQuery[cypher]
                      \o AstIssues(_iter_rule_contexts(asts[1].tree))
        /\ compatibility_issues # <<>> =>
              pc = "done" /\ outcome.kind = "CypherCompatibilityError"

\* a query rejected for a NOT label expression after the fallback
C5_Witness ==
    /\ pc = "done"
    /\ used_fallback
    /\ outcome.kind = "CypherCompatibilityError"
    /\ outcome.issues = <<Issue.not_label>>

\* the violation reports this relationship with these labels
Reports(v, u, left_labels, right_labels) ==
    /\ v.snippet = _format_snippet(u)
    /\ v.rel_type = Join(_extract_rel_types(u.rel_text), <<"|">>)
    /\ SeqRange(v.left_labels) = left_labels
    /\ SeqRange(v.right_labels) = right_labels
    /\ v.direction = _direction_from_match(u.left_dir, u.right_dir)

\* C7: allows(T, A, B) holds iff the ordered pair (A, B) was declared for the
\* edge type T, and for no pair of an unknown type; a directed relationship
\* with labels written on both ends, in an orientation the schema does not
\* declare, makes a validation that reaches the schema check end in a
\* SchemaValidationError with a violation naming its edge type, both label
\* tuples and the written direction
C7_Positional ==
    /\ \A t \in Types, a \in Labels, b \in Labels :
          allows(schema, t, a, b) <=> Declared(edges, t, a, b)
    /\ (pc = "done" /\ asts # <<>> /\ compatibility_issues = <<>>) =>
          \A u \in RelUses(asts) :
              ( /\ u.left_labels # <<>>
                /\ u.right_labels # <<>>
                /\ _extract_rel_types(u.rel_text) # <<>>
                /\ _direction_from_match(u.left_dir, u.right_dir)
                      \in {"left_to_right", "right_to_left"}
                /\ ~Allowed(edges, asts, u) ) =>
                  /\ outcome.kind = "SchemaValidationError"
                  /\ outcome.violations = violations
                  /\ \E k \in 1..Len(violations) :
                        /\ Reports(violations[k], u, SeqRange(u.left_labels),
                                   SeqRange(u.right_labels))
                        /\ violations[k].left_labels = u.left_labels
                        /\ violations[k].right_labels = u.right_labels

\* the schema declares A-[T]->B only and the query writes (a:A)<-[:T]-(b:B)
C7_Witness ==
    /\ pc = "done"
    /\ edges = << <<LabelA, TypeT, LabelB>> >>
    /\ outcome.kind = "SchemaValidationError"
    /\ \E k \in 1..Len(violations) :
          /\ violations[k].rel_type = TypeT
          /\ violations[k].left_labels = <<LabelA>>
          /\ violations[k].right_labels = <<LabelB>>
          /\ violations[k].direction = "right_to_left"

\* one side of the relationship stands for no label
Unlabelled(trees, u) == LeftSet(trees, u) = {} \/ RightSet(trees, u) = {}

\* C8: a relationship whose left or right side has no resolved labels never
\* produces a violation, whatever its edge type and direction: it is skipped
C8_UnresolvedSkipped ==
    (pc = "done" /\ "schema" \in SeqRange(ran)) =>
        /\ \A u \in RelUses(asts) :
              Unlabelled(asts, u) =>
                  \A k \in 1..Len(violations) : violations[k].snippet # _format_snippet(u)
        /\ \A k \in 1..Len(violations) :
              violations[k].left_labels # <<>> /\ violations[k].right_labels # <<>>
        /\ (\A u \in RelUses(asts) : Unlabelled(asts, u)) => outcome.kind = "return"

\* a query is admitted although its relationship of type T, written left to
\* right towards B, has an unlabelled left side, and T is declared from A only
C8_Witness ==
    /\ pc = "done"
    /\ outcome.kind = "return"
    /\ \E u \in RelUses(asts) :
          /\ _extract_rel_types(u.rel_text) = <<TypeT>>
          /\ LeftSet(asts, u) = {}
          /\ RightSet(asts, u) = {LabelB}
          /\ ~Declared(edges, TypeT, LabelB, LabelB)

\* the variables some node occurrence declares labels for
DeclaredVariables(trees) ==
    { n.var[1] : n \in { m \in NodeUses(trees) :
                            m.var # Nothing /\ Len(m.var[1]) > 0 /\ m.labels # <<>> } }

\* one side resolves to its explicit labels, or else to the accumulated set
ResolvesTo(trees, explicit, var) ==
    LET resolved == _resolve_labels(explicit, var, variable_labels, iter_order) IN
    IF explicit # <<>> THEN resolved = explicit
    ELSE /\ SeqRange(resolved) = ResolvedSet(trees, explicit, var)
         /\ Len(resolved) = Cardinality(SeqRange(resolved))

\* C9: the resolver accumulates, per variable, the union of the labels declared
\* at any node occurrence in any parse tree; an occurrence without explicit
\* labels resolves to exactly that set, so that its relationship is checked
\* and rejected if disallowed, and an occurrence with explicit labels resolves
\* to its own labels only
C9_LabelUnion ==
    "extract" \in SeqRange(ran) =>
        /\ DOMAIN variable_labels = DeclaredVariables(asts)
        /\ \A var \in DOMAIN variable_labels :
              variable_labels[var] = DeclaredLabels(asts, var)
        /\ \A u \in RelUses(asts) :
              /\ ResolvesTo(asts, u.left_labels, u.left_var)
              /\ ResolvesTo(asts, u.right_labels, u.right_var)
              /\ (pc = "done" /\ Checked(asts, u) /\ ~Allowed(edges, asts, u)) =>
                    /\ outcome.kind = "SchemaValidationError"
                    /\ \E k \in 1..Len(violations) :
                          Reports(violations[k], u, LeftSet(asts, u), RightSet(asts, u))

\* a is declared A in one pattern and B in another; the relationship from
\* (b:B) to the unlabelled (a) is rejected with both labels on its right
C9_Witness ==
    /\ pc = "done"
    /\ outcome.kind = "SchemaValidationError"
    /\ variable_labels[<<"a">>] = {LabelA, LabelB}
    /\ \E k \in 1..Len(violations) :
          /\ violations[k].left_labels = <<LabelB>>
          /\ violations[k].right_labels = <<LabelB, LabelA>>

\* the outcome validate reaches from this state's trees when the frozensets
\* are iterated in the orders pairs and labels
OutcomeUnder(pairs, labels) ==
    LET found == AllViolations(schema, pairs, pattern_parts, variable_labels, labels) IN
    IF found # <<>> THEN SchemaValidationError(found)
    ELSE [NoOutcome EXCEPT !.kind = "return"]

\* C11: for a fixed schema and a fixed input text validate produces the same
\* outcome, the same error variant with the same contents in the same order,
\* whatever the order in which the sets of the schema and of the variable
\* labels are iterated
C11_Deterministic ==
    (pc = "done" /\ "schema" \in SeqRange(ran)) =>
        \A pairs \in PairOrders(schema), labels \in LabelOrders(variable_labels) :
            OutcomeUnder(pairs, labels) = outcome

\* the elements of xs in the order of their first occurrence
RECURSIVE Distinct(_, _)
Distinct(xs, acc) ==
    IF xs = <<>> THEN acc
    ELSE Distinct(Tail(xs), IF Head(xs) \in SeqRange(acc) THEN acc ELSE Append(acc, Head(xs)))

\* the pairs declared for rel_type, in the order of the edge list
RECURSIVE DeclaredPairs(_, _)
DeclaredPairs(edge_list, rel_type) ==
    IF edge_list = <<>> THEN <<>>
    ELSE (IF Head(edge_list)[2] = rel_type
          THEN << <<Head(edge_list)[1], Head(edge_list)[3]>> >> ELSE <<>>)
            \o DeclaredPairs(Tail(edge_list), rel_type)

\* the pairs declared for the alternatives, each alternative in turn
RECURSIVE DeclaredPairsOfAll(_, _)
DeclaredPairsOfAll(edge_list, rel_types) ==
    IF rel_types = <<>> THEN <<>>
    ELSE DeclaredPairs(edge_list, Head(rel_types))
            \o DeclaredPairsOfAll(edge_list, Tail(rel_types))

\* C12: the allowed_pairs of every violation are exactly the pairs the schema
\* declares for the edge-type alternatives of the violation, without
\* duplicates, in the order of their first declaration
C12_AllowedPairsInDeclaredOrder ==
    \A k \in 1..Len(violations) :
        violations[k].allowed_pairs =
            Distinct(DeclaredPairsOfAll(edges, SplitAll(violations[k].rel_type, "|")), <<>>)

\* a node pattern of the text carries labels and a property map
HasInlineMap(text) ==
    \E k \in 1..Len(_iter_nodes(text)) :
        LET node == _iter_nodes(text)[k] IN HasChar(node.text, "{") /\ node.labels # <<>>

\* C13: a query whose node pattern carries an inline property map is, once
\* parsed, rejected with a Compatibility error before any schema check, even
\* when the schema allows all its relationships
C13_InlineMapRejected ==
    ( /\ pc = "done"
      /\ asts # <<>>
      /\ HasInlineMap(cypher)
      /\ \E t \in SeqRange(PatternTextsOf(asts)) : HasInlineMap(t) ) =>
        /\ outcome.kind = "CypherCompatibilityError"
        /\ "schema" \notin SeqRange(ran)

\* getText() of the function invocations of a tree, in the order of the walk
RECURSIVE InvocationsOf(_)
InvocationsOf(contexts) ==
    IF contexts = <<>> THEN <<>>
    ELSE (IF Head(contexts).rule_name = RuleName.functionInvocation
          THEN <<Head(contexts).ctx.text>> ELSE <<>>)
            \o InvocationsOf(Tail(contexts))

\* the invocations of every tree the parser can deliver, computed once
InvocationsOfTree == [t \in Trees |-> InvocationsOf(_iter_rule_contexts(t))]

\* the name of an invocation: the part of the text before its first
\* parenthesis, after its last dot, in lower case
InvocationName(invocation) == lower(Last(SplitAll(BeforeFirst(invocation, "("), ".")))

\* the text between the first parenthesis and the closing one
InvocationArgs(invocation) ==
    LET rest == AfterFirst(invocation, "(") IN
    IF endswith(rest, <<")">>) THEN SubSeq(rest, 1, Len(rest) - 1) ELSE rest

Unsupported(invocation) == InvocationName(invocation) \in _UNSUPPORTED_FUNCTIONS

\* how often an issue occurs in a list of issues
Count(issues, issue) == Cardinality({ k \in 1..Len(issues) : issues[k] = issue })

\* C14: in a validation without fallback every function invocation whose name
\* (after the last dot, in lower case) is in the unsupported set contributes
\* exactly one issue "Function '<name>' is not supported" and validate raises a
\* Compatibility error; neither the exists rule nor the pattern-argument rule
\* is applied to that invocation
C14_UnsupportedFunction ==
    ("compatibility" \in SeqRange(ran) /\ ~used_fallback) =>
        LET invocations == InvocationsOfTree[asts[1].tree]
            rejected == { k \in 1..Len(invocations) : Unsupported(invocations[k]) }
            others == Len(invocations) - Cardinality(rejected)
        IN  /\ \A k \in rejected :
                  /\ Count(compatibility_issues,
                           IssueFunction(InvocationName(invocations[k])))
                        = Cardinality({ m \in rejected : InvocationName(invocations[m])
                                                         = InvocationName(invocations[k]) })
                  /\ pc = "done"
                  /\ outcome.kind = "CypherCompatibilityError"
                  /\ outcome.issues = compatibility_issues
            /\ Count(compatibility_issues, Issue.exists_property)
                 + Count(compatibility_issues, Issue.pattern_expression) <= others
            /\ Len(compatibility_issues)
                 <= Len(TextualIssuesOfQuery[cypher]) + Len(invocations)

\* x.Time((a)-[:T]->(b)) is reported as the unsupported function time, and as
\* nothing else
C14_Witness ==
    /\ pc = "done"
    /\ ~used_fallback
    /\ \E k \in 1..Len(InvocationsOfTree[asts[1].tree]) :
          /\ HasChar(BeforeFirst(InvocationsOfTree[asts[1].tree][k], "("), ".")
          /\ _looks_like_pattern_expression(
                 InvocationArgs(InvocationsOfTree[asts[1].tree][k]))
    /\ outcome.kind = "CypherCompatibilityError"
    /\ outcome.issues = <<IssueFunction(<<"t","i","m","e">>)>>

\* the argument text holds one of the tokens -[: <-[ ]- -> <- )- -(
PatternLike(args) ==
    \E token \in { <<"-","[",":">>, <<"<","-","[">>, <<"]","-">>, <<"-",">">>,
                   <<"<","-">>, <<")","-">>, <<"-","(">> } :
        \E i \in 1..Len(args) :
            /\ i + Len(token) - 1 <= Len(args)
            /\ SubSeq(args, i, i + Len(token) - 1) = token

\* what the invocations outside the unsupported set contribute, one by one
RECURSIVE ExistsAndPatternIssues(_)
ExistsAndPatternIssues(invocations) ==
    IF invocations = <<>> THEN <<>>
    ELSE LET f == Head(invocations) IN
         (IF Unsupported(f) THEN <<>>
          ELSE IF InvocationName(f) = <<"e","x","i","s","t","s">>
               THEN (IF ~PatternLike(InvocationArgs(f)) THEN <<Issue.exists_property>> ELSE <<>>)
               ELSE (IF PatternLike(InvocationArgs(f)) THEN <<Issue.pattern_expression>> ELSE <<>>))
            \o ExistsAndPatternIssues(Tail(invocations))

ExpectedOfTree == [t \in Trees |-> ExistsAndPatternIssues(InvocationsOfTree[t])]

IsExistsOrPatternIssue(issue) ==
    issue \in {Issue.exists_property, Issue.pattern_expression}

\* C15: an invocation of exists outside the unsupported set yields the issue
\* about exists(n.property) iff its argument text does not look like a pattern
\* and never the issue about patterns in expressions; an invocation of any
\* other supported name yields the issue about patterns in expressions iff its
\* argument text looks like a pattern; the issues come in the order of the
\* invocations
C15_ExistsAndPatternRules ==
    ("compatibility" \in SeqRange(ran) /\ ~used_fallback) =>
        SelectSeq(compatibility_issues, IsExistsOrPatternIssue)
            = ExpectedOfTree[asts[1].tree]

\* EXISTS((a)-[:T]->(b)), size((a)--(b)), exists(a.x), count(a): the second
\* and the third are reported, the first and the last are not
C15_Witness ==
    /\ pc = "done"
    /\ ~used_fallback
    /\ Len(InvocationsOfTree[asts[1].tree]) = 4
    /\ outcome.kind = "CypherCompatibilityError"
    /\ outcome.issues = <<Issue.pattern_expression, Issue.exists_property>>

\* the patterns written in a tree of the parser, one per MATCH, in order:
\* the text of what follows the keyword MATCH
WrittenPatterns ==
    [t \in Trees |->
        LET clauses == t.children[1].children
            matches == SelectSeq(clauses, LAMBDA c : c.rule = RuleName.matchSt)
        IN  [k \in 1..Len(matches) |-> matches[k].children[2].text]]

RelationshipSeqOfText == [t \in KnownPatternTexts |-> _iter_relationships(t)]

\* the relationship occurrences of a list of patterns, in written order
RECURSIVE OccurrencesIn(_)
OccurrencesIn(patterns) ==
    IF patterns = <<>> THEN <<>>
    ELSE RelationshipSeqOfText[Head(patterns)] \o OccurrencesIn(Tail(patterns))

\* the relationship occurrences of the trees, in written order
RECURSIVE Occurrences(_)
Occurrences(trees) ==
    IF trees = <<>> THEN <<>>
    ELSE OccurrencesIn(WrittenPatterns[Head(trees).tree]) \o Occurrences(Tail(trees))

\* C16: the violations of a schema check are, one for one and in written
\* order, the relationship occurrences of the query that have an edge type and
\* labels on both sides and are not allowed: each such occurrence is reported
\* once, however many contexts of the tree cover it, and no allowed or skipped
\* occurrence is reported. It fails for a pattern part that lies inside
\* another one: the relationship of the inner part is in the text of both.
C16_OnePerOccurrence ==
    (pc = "done" /\ "schema" \in SeqRange(ran)) =>
        LET IsOffending(u) == Checked(asts, u) /\ ~Allowed(edges, asts, u)
            offending == SelectSeq(Occurrences(asts), IsOffending)
        IN  /\ Len(violations) = Len(offending)
            /\ \A k \in 1..Len(violations) :
                  Reports(violations[k], offending[k], LeftSet(asts, offending[k]),
                          RightSet(asts, offending[k]))
            /\ outcome.kind = "SchemaValidationError" => outcome.violations = violations

\* ------------------------------------------------------------------------
\* Inputs of the text functions: concatenations of a few source fragments
\* ------------------------------------------------------------------------
MaxPieces == 4

Pieces ==
    << Keyword.exists, <<"(">>, <<")">>, <<"{">>, <<"}">>, <<"-",">">>, <<" ">>,
       Keyword.return, <<"'">> >>

RECURSIVE Concat(_)
Concat(ps) == IF ps = <<>> THEN <<>> ELSE Pieces[Head(ps)] \o Concat(Tail(ps))

\* the concatenations of at most max pieces
PieceTexts(max) ==
    UNION { { Concat(ps) : ps \in [1..n -> 1..Len(Pieces)] } : n \in 0..max }

\* EXISTS(EXISTS{->}), EXISTS((s)-[:M]->(:E)), EXISTS { MATCH (s) }
NormSamples ==
    { Keyword.exists \o <<"(">> \o Keyword.exists \o <<"{","-",">","}",")">>,
      Keyword.exists \o <<"(","(","s",")","-","[",":","M","]","-",">","(",":","E",")",")">>,
      Keyword.exists \o <<" ","{"," ">> \o Keyword.match \o <<" ","(","s",")"," ","}">> }

NormInputs(max) == PieceTexts(max) \cup NormSamples

\* ------------------------------------------------------------------------
\* Specification of the normalizer applied once and twice
\* ------------------------------------------------------------------------
ValIdle ==
    /\ edges = <<>>
    /\ schema = EmptyMap
    /\ pair_order = EmptyMap
    /\ cypher = <<>>
    /\ pc = "idle"
    /\ exc = Nothing
    /\ normalized = Nothing
    /\ segments = <<>>
    /\ asts = <<>>
    /\ used_fallback = FALSE
    /\ compatibility_issues = <<>>
    /\ pattern_parts = <<>>
    /\ variable_labels = EmptyMap
    /\ iter_order = EmptyMap
    /\ violations = <<>>
    /\ outcome = NoOutcome
    /\ ran = <<>>
    /\ parse_log = <<>>

NormInit ==
    /\ norm \in { [text |-> t, once |-> Nothing, twice |-> Nothing] : t \in NormInputs(MaxPieces) }
    /\ rule = RuleIdle
    /\ scan = Nothing /\ adk = Nothing /\ mcp = Nothing
    /\ frames = Nothing
    /\ ValIdle

NormalizeOnce ==
    /\ norm.once = Nothing
    /\ norm' = [norm EXCEPT !.once = Some(_normalize_exists_subqueries(norm.text))]
    /\ UNCHANGED <<valvars, rule, frames, scan, adk, mcp>>

NormalizeTwice ==
    /\ norm.once # Nothing
    /\ norm.twice = Nothing
    /\ norm' = [norm EXCEPT !.twice = Some(_normalize_exists_subqueries(norm.once[1]))]
    /\ UNCHANGED <<valvars, rule, frames, scan, adk, mcp>>

NormNext == NormalizeOnce \/ NormalizeTwice

SpecNormalize == NormInit /\ [][NormNext]_vars

\* C10: normalizing an already normalized text changes nothing
C10_Idempotent == norm.twice # Nothing => norm.twice = norm.once

\* the positions of a text outside string literals and backtick names; q is
\* "string", "backtick" or "none"
RECURSIVE Unquoted(_, _, _, _)
Unquoted(text, i, q, acc) ==
    IF i >= Len(text) THEN acc
    ELSE LET char == At(text, i) IN
         IF q = "string"
         THEN IF char = "'" /\ i + 1 < Len(text) /\ At(text, i + 1) = "'"
              THEN Unquoted(text, i + 2, q, acc)
              ELSE Unquoted(text, i + 1, IF char = "'" THEN "none" ELSE q, acc)
         ELSE IF q = "backtick"
         THEN Unquoted(text, i + 1, IF char = BT THEN "none" ELSE q, acc)
         ELSE IF char = "'" THEN Unquoted(text, i + 1, "string", acc)
         ELSE IF char = BT THEN Unquoted(text, i + 1, "backtick", acc)
         ELSE Unquoted(text, i + 1, q, acc \cup {i})

\* where a word-bounded EXISTS stands outside strings and backticks
ExistsPositions(text) ==
    { i \in Unquoted(text, 0, "none", {}) :
        upper_startswith(text, Keyword.exists, i) /\ _is_word_boundary(text, i, i + 6) }

\* C18: in the output of the normalizer every word-bounded EXISTS outside
\* strings and backticks that is followed by a balanced { ... } has a body with
\* a top-level RETURN
C18_SubqueriesReturn ==
    norm.once # Nothing =>
        \A i \in ExistsPositions(norm.once[1]) :
            LET out == norm.once[1]
                j == SkipSpaces(out, i + 6)
            IN  ( /\ j < Len(out)
                  /\ At(out, j) = "{"
                  /\ _find_matching_brace(out, j) # NoIndex ) =>
                    _subquery_has_top_level_return(
                        Slice(out, j + 1, _find_matching_brace(out, j)))

\* ------------------------------------------------------------------------
\* Specification of the rule engine: GraphSchema.from_edges, then _is_allowed
\* ------------------------------------------------------------------------
MaxEdges == 2

SeqsUpTo(S, n) == UNION { [1..m -> S] : m \in 0..n }

\* tuples without repetition, in every order
Tuples(S) == UNION { Orderings(T) : T \in SUBSET S }

RuleInit ==
    /\ rule \in { [RuleIdle EXCEPT !.edges = e] :
                    e \in SeqsUpTo(Labels \X Types \X Labels, MaxEdges) }
    /\ norm = NormIdle
    /\ scan = Nothing /\ adk = Nothing /\ mcp = Nothing
    /\ frames = Nothing
    /\ ValIdle

BuildSchema ==
    /\ rule.schema = Nothing
    /\ rule' = [rule EXCEPT !.schema = Some(from_edges(rule.edges))]
    /\ UNCHANGED <<valvars, norm, frames, scan, adk, mcp>>

ApplyIsAllowed ==
    /\ rule.schema # Nothing
    /\ rule.result = Nothing
    /\ \E t \in Tuples(Types), l \in Tuples(Labels), r \in Tuples(Labels),
          d \in Directions :
          rule' = [rule EXCEPT !.rel_types = t, !.left_labels = l, !.right_labels = r,
                               !.direction = Some(d),
                               !.result = Some(_is_allowed(rule.schema[1], t, l, r, d))]
    /\ UNCHANGED <<valvars, norm, frames, scan, adk, mcp>>

RuleNext == BuildSchema \/ ApplyIsAllowed

SpecRules == RuleInit /\ [][RuleNext]_vars

\* C6: _is_allowed is true iff some edge type t of T and some (l, r) of L x R
\* has allows(t, l, r) under a direction that reads left to right (left_to_right,
\* both, undirected) or allows(t, r, l) under one that reads right to left
\* (right_to_left, both, undirected)
C6_IsAllowedIff ==
    rule.result # Nothing =>
        rule.result[1] =
            (\E t \in SeqRange(rule.rel_types), l \in SeqRange(rule.left_labels),
                r \in SeqRange(rule.right_labels) :
                \/ /\ rule.direction[1] \in {"left_to_right", "both", "undirected"}
                   /\ allows(rule.schema[1], t, l, r)
                \/ /\ rule.direction[1] \in {"right_to_left", "both", "undirected"}
                   /\ allows(rule.schema[1], t, r, l))

\* an undirected pattern admitted only through the reversed orientation, by the
\* second of two edge types and the second of two right labels
C6_Witness ==
    /\ rule.result = Some(TRUE)
    /\ rule.direction = Some("undirected")
    /\ rule.edges = << <<LabelB, TypeU, LabelA>> >>
    /\ rule.rel_types = <<TypeT, TypeU>>
    /\ rule.left_labels = <<LabelA>>
    /\ rule.right_labels = <<LabelA, LabelB>>

\* ------------------------------------------------------------------------
\* Specification of validate called close to the interpreter's recursion
\* limit, on texts with nested EXISTS { ... }
\* ------------------------------------------------------------------------
\* EXISTS{EXISTS{ ... }} nested n times
RECURSIVE Nested(_)
Nested(n) ==
    IF n = 0 THEN <<>> ELSE Keyword.exists \o <<"{">> \o Nested(n - 1) \o <<"}">>

RecursionInit ==
    /\ edges \in SchemaSamples
    /\ schema = from_edges(edges)
    /\ pair_order \in PairOrders(schema)
    /\ cypher \in Queries \cup { Nested(n) : n \in 1..MaxNesting }
    /\ frames \in { Some(n) : n \in 2..(MaxNesting + 2) }
    /\ pc = "parse_raw"
    /\ exc = Nothing
    /\ normalized = Nothing
    /\ segments = <<>>
    /\ asts = <<>>
    /\ used_fallback = FALSE
    /\ compatibility_issues = <<>>
    /\ pattern_parts = <<>>
    /\ variable_labels = EmptyMap
    /\ iter_order = EmptyMap
    /\ violations = <<>>
    /\ outcome = NoOutcome
    /\ ran = <<>>
    /\ parse_log = <<>>
    /\ norm = NormIdle
    /\ rule = RuleIdle
    /\ scan = Nothing /\ adk = Nothing /\ mcp = Nothing

SpecRecursion == RecursionInit /\ [][Next]_vars

\* C17: validate returns or raises a CypherValidationError, a
\* CypherCompatibilityError or a SchemaValidationError, whatever the text; no
\* other exception leaves it
C17_OnlyValidationErrors ==
    pc = "done" =>
        outcome.kind \in { "return", "CypherValidationError", "CypherCompatibilityError",
                           "SchemaValidationError" }

\* ------------------------------------------------------------------------
\* Specification of the two raise statements of validate: the state before
\* raise CypherCompatibilityError(...) or raise SchemaValidationError(...), then
\* the exception with its message
\* ------------------------------------------------------------------------
MaxIssues == 2

\* (a:B)-[:U]->(b:B)-[:T]->(:B), (a:A)-[:`T`]->(b:B) and
\* (a:A)-[r:T|U*1..2{x:1}]->(b:B)
MessagePatterns ==
    { <<"(","a",":","B",")","-","[",":","U","]","-",">","(","b",":","B",")","-","[",":","T","]","-",">","(",":","B",")">>,
      <<"(","a",":","A",")","-","[",":",BT,"T",BT,"]","-",">","(","b",":","B",")">>,
      <<"(","a",":","A",")","-","[","r",":","T","|","U","*","1",".",".","2","{","x",":","1","}","]","-",">","(","b",":","B",")">> }

IssueSamples ==
    LET all == { Issue[name] : name \in DOMAIN Issue } \cup { IssueFunction(<<"t","i","m","e">>) }
    IN  UNION { [1..n -> all] : n \in 1..MaxIssues }

MessageInit ==
    /\ edges \in SchemaSamples \cup { <<>> }
    /\ schema = from_edges(edges)
    /\ pair_order \in PairOrders(schema)
    /\ frames = Nothing
    /\ cypher = <<>>
    /\ exc = Nothing
    /\ normalized = Nothing
    /\ segments = <<>>
    /\ asts = <<>>
    /\ used_fallback = FALSE
    /\ outcome = NoOutcome
    /\ ran = <<>>
    /\ parse_log = <<>>
    /\ norm = NormIdle
    /\ rule = RuleIdle
    /\ scan = Nothing /\ adk = Nothing /\ mcp = Nothing
    /\ \/ /\ pc = "raise_compatibility"
          /\ compatibility_issues \in IssueSamples
          /\ pattern_parts = <<>>
          /\ variable_labels = EmptyMap
          /\ iter_order = EmptyMap
          /\ violations = <<>>
       \/ /\ pc = "raise_schema"
          /\ compatibility_issues = <<>>
          /\ pattern_parts \in { PatternPartsOf(_iter_rule_contexts(Tree(ps, <<>>))) :
                                   ps \in PatternLists \cup { <<p>> : p \in MessagePatterns } }
          /\ variable_labels = _collect_variable_labels(
                                   [k \in 1..Len(pattern_parts) |-> pattern_parts[k][2]])
          /\ iter_order \in LabelOrders(variable_labels)
          /\ violations = AllViolations(schema, pair_order, pattern_parts,
                                        variable_labels, iter_order)
          /\ violations # <<>>

\* raise CypherCompatibilityError(compatibility_issues)
RaiseCypherCompatibilityError ==
    /\ pc = "raise_compatibility"
    /\ outcome' = CypherCompatibilityError(compatibility_issues)
    /\ pc' = "done"
    /\ UNCHANGED <<edges, schema, pair_order, frames, cypher, exc, normalized, segments, asts,
                   used_fallback, compatibility_issues, pattern_parts, variable_labels,
                   iter_order, violations, ran, parse_log, norm, rule,
                   scan, adk, mcp>>

\* raise SchemaValidationError(violations)
RaiseSchemaValidationError ==
    /\ pc = "raise_schema"
    /\ outcome' = SchemaValidationError(violations)
    /\ pc' = "done"
    /\ UNCHANGED <<edges, schema, pair_order, frames, cypher, exc, normalized, segments, asts,
                   used_fallback, compatibility_issues, pattern_parts, variable_labels,
                   iter_order, violations, ran, parse_log, norm, rule,
                   scan, adk, mcp>>

MessageNext == RaiseCypherCompatibilityError \/ RaiseSchemaValidationError

SpecMessages == MessageInit /\ [][MessageNext]_vars

\* the first position at or after from where part stands in line, or NoIndex
FindFrom(line, part, from) ==
    LET found == { i \in from..(Len(line) - Len(part)) : startswith(line, part, i) } IN
    IF found = {} THEN NoIndex ELSE CHOOSE i \in found : \A j \in found : i <= j

\* the parts stand in the line one after the other, in this order
RECURSIVE InOrder(_, _, _)
InOrder(line, parts, from) ==
    IF parts = <<>> THEN TRUE
    ELSE LET at == FindFrom(line, Head(parts), from) IN
         /\ at # NoIndex
         /\ InOrder(line, Tail(parts), at + Len(Head(parts)))

\* the arrow the message shows for a direction
ArrowOf ==
    [ left_to_right |-> <<"-", ">">>, right_to_left |-> <<"<", "-">>,
      both |-> <<"<", "-", ">">>, undirected |-> <<"-">> ]

\* 's -> d; s -> d', or 'none' without pairs
RECURSIVE PairsText(_)
PairsText(pairs) ==
    IF pairs = <<>> THEN <<"n", "o", "n", "e">>
    ELSE Head(pairs)[1] \o <<" ", "-", ">", " ">> \o Head(pairs)[2]
            \o (IF Len(pairs) = 1 THEN <<>> ELSE <<";", " ">> \o PairsText(Tail(pairs)))

RECURSIVE CommaJoined(_)
CommaJoined(labels) ==
    IF labels = <<>> THEN <<>>
    ELSE Head(labels) \o (IF Len(labels) = 1 THEN <<>> ELSE <<",">> \o CommaJoined(Tail(labels)))

\* C19: the message of a SchemaValidationError is the line 'Cypher schema
\* validation failed:' followed, per violation and in list order, by two lines:
\* one starting with '- Invalid relationship: ' that holds, in this order, the
\* comma-joined left labels, the arrow of the direction, the comma-joined right
\* labels, the edge type, the allowed pairs ('none' when there are none), the
\* snippet and '[rule=<rule_path>]', and one starting with '  Hint: '; the
\* message of a CypherCompatibilityError is its header line followed by one
\* line '- <issue>' per issue, in order
C19_MessageFormat ==
    pc = "done" =>
        LET lines == SplitAll(outcome.message, "\n") IN
        /\ outcome.kind = "SchemaValidationError" =>
              /\ Len(lines) = 1 + 2 * Len(outcome.violations)
              /\ lines[1] = <<"C","y","p","h","e","r"," ","s","c","h","e","m","a"," ","v","a","l","i","d","a","t","i","o","n"," ","f","a","i","l","e","d",":">>
              /\ \A k \in 1..Len(outcome.violations) :
                    LET v == outcome.violations[k] IN
                    /\ startswith(lines[2 * k], <<"-"," ","I","n","v","a","l","i","d"," ","r","e","l","a","t","i","o","n","s","h","i","p",":"," ">>, 0)
                    /\ InOrder(lines[2 * k],
                               << CommaJoined(v.left_labels), ArrowOf[v.direction],
                                  CommaJoined(v.right_labels), v.rel_type,
                                  PairsText(v.allowed_pairs), v.snippet,
                                  <<"[", "r", "u", "l", "e", "=">> \o v.rule_path \o <<"]">> >>,
                               Len(<<"-"," ","I","n","v","a","l","i","d"," ","r","e","l","a","t","i","o","n","s","h","i","p",":"," ">>))
                    /\ startswith(lines[2 * k + 1], <<" "," ","H","i","n","t",":"," ">>, 0)
        /\ outcome.kind = "CypherCompatibilityError" =>
              /\ Len(lines) = 1 + Len(outcome.issues)
              /\ lines[1] = <<"C","y","p","h","e","r"," ","u","s","e","s"," ","c","o","n","s","t","r","u","c","t","s"," ","n","o","t"," ","s","u","p","p","o","r","t","e","d"," ","b","y"," ","M","e","m","g","r","a","p","h",":">>
              /\ \A k \in 1..Len(outcome.issues) :
                    lines[k + 1] = <<"-", " ">> \o outcome.issues[k]

\* a message of five lines for two violations of one pattern: the first has no
\* allowed pair, the second has two
C19_Witness ==
    /\ pc = "done"
    /\ outcome.kind = "SchemaValidationError"
    /\ Len(outcome.violations) = 2
    /\ outcome.violations[1].allowed_pairs = <<>>
    /\ Len(outcome.violations[2].allowed_pairs) = 2
    /\ Len(SplitAll(outcome.message, "\n")) = 5

\* the type names written in the text of a relationship pattern: what stands
\* between the first colon and the variable-length suffix or the property map,
\* split at the bars, without blanks and backticks
WrittenTypes(rel_text) ==
    LET head == BeforeFirst(rel_text, "{") IN
    IF ~HasChar(head, ":") THEN <<>>
    ELSE LET names == SplitAll(BeforeFirst(AfterFirst(head, ":"), "*"), "|")
             bare == [k \in 1..Len(names) |-> StripChars(names[k], {" ", BT})]
         IN  SelectSeq(bare, LAMBDA name : name # <<>>)

\* C20: the edge types extracted for a relationship pattern are the type names
\* written in it, in written order, without backticks, variable,
\* variable-length suffix and property map; no violation names a type with its
\* backticks
C20_WrittenTypesExtracted ==
    /\ \A k \in 1..Len(pattern_parts) :
          LET rel_uses == _iter_relationships(pattern_parts[k][2]) IN
          \A r \in 1..Len(rel_uses) :
              _extract_rel_types(rel_uses[r].rel_text) = WrittenTypes(rel_uses[r].rel_text)
    /\ \A k \in 1..Len(violations) : ~HasChar(violations[k].rel_type, BT)

\* ------------------------------------------------------------------------
\* Specification of the relationship scanner: a chain of node patterns joined
\* by bracketed relationship patterns is written out and _iter_relationships
\* is applied to the text
\* ------------------------------------------------------------------------
MaxChain == 2

\* (a:A), (:B) and (a:A{x:(1)+(2)})
NodeSamples ==
    { <<"(","a",":","A",")">>, <<"(",":","B",")">>,
      <<"(","a",":","A","{","x",":","(","1",")","+","(","2",")","}",")">> }

\* -[:T]->, <-[:U]-, -[:T]-, <-[:U]-> and -[:T{x:[1]}]->
LinkSamples ==
    { [left |-> "-", body |-> <<":","T">>, right |-> "->"],
      [left |-> "<-", body |-> <<":","U">>, right |-> "-"],
      [left |-> "-", body |-> <<":","T">>, right |-> "-"],
      [left |-> "<-", body |-> <<":","U">>, right |-> "->"],
      [left |-> "-", body |-> <<":","T","{","x",":","[","1","]","}">>, right |-> "->"] }

\* the text of a relationship pattern
LinkText(link) ==
    (IF link.left = "<-" THEN <<"<","-">> ELSE <<"-">>)
        \o <<"[">> \o link.body \o <<"]">>
        \o (IF link.right = "->" THEN <<"-",">">> ELSE <<"-">>)

\* the text of the chain nodes[1] links[1] nodes[2] ... links[k] nodes[k+1]
RECURSIVE ChainText(_, _)
ChainText(nodes, links) ==
    IF links = <<>> THEN nodes[1]
    ELSE nodes[1] \o LinkText(links[1]) \o ChainText(Tail(nodes), Tail(links))

ExtractInit ==
    /\ scan \in UNION { { [nodes |-> nodes, links |-> links,
                            text |-> ChainText(nodes, links), rels |-> Nothing] :
                            nodes \in [1..k + 1 -> NodeSamples],
                            links \in [1..k -> LinkSamples] } : k \in 0..MaxChain }
    /\ norm = NormIdle
    /\ rule = RuleIdle
    /\ frames = Nothing
    /\ adk = Nothing /\ mcp = Nothing
    /\ ValIdle

IterRelationships ==
    /\ scan.rels = Nothing
    /\ scan' = [scan EXCEPT !.rels = Some(_iter_relationships(scan.text))]
    /\ UNCHANGED <<valvars, norm, rule, frames, adk, mcp>>

ExtractNext == IterRelationships

SpecExtract == ExtractInit /\ [][ExtractNext]_vars

\* C21: each extracted relationship has left_dir '<-' iff its pattern is
\* written with '<' on its left and right_dir '->' iff it is written with '>' on
\* its right, whatever its bracket contains, and its direction follows the table
\* both / right_to_left / left_to_right / undirected
C21_DirectionsAsWritten ==
    scan.rels # Nothing =>
        \A i \in 1..Len(scan.rels[1]) :
            i <= Len(scan.links) =>
                LET use == scan.rels[1][i]
                    link == scan.links[i]
                    direction == _direction_from_match(use.left_dir, use.right_dir)
                IN  /\ use.left_dir = "<-" <=> link.left = "<-"
                    /\ use.right_dir = "->" <=> link.right = "->"
                    /\ direction = "both" <=> (link.left = "<-" /\ link.right = "->")
                    /\ direction = "right_to_left" <=> (link.left = "<-" /\ link.right = "-")
                    /\ direction = "left_to_right" <=> (link.left = "-" /\ link.right = "->")
                    /\ direction = "undirected" <=> (link.left = "-" /\ link.right = "-")

\* what stands between the parentheses of a node pattern
Inner(node) == Slice(node, 1, Len(node) - 1)

\* C26: a chain of k + 1 node patterns joined by k bracketed relationship
\* patterns yields exactly k uses in written order, the i-th with the i-th node
\* pattern on its left and the (i+1)-th on its right, the right node of a use
\* being the left node of the next
C26_ChainOfUses ==
    scan.rels # Nothing =>
        LET uses == scan.rels[1] IN
        /\ Len(uses) = Len(scan.links)
        /\ \A i \in 1..Len(uses) :
              /\ uses[i].left_node = Inner(scan.nodes[i])
              /\ uses[i].right_node = Inner(scan.nodes[i + 1])
        /\ \A i \in 1..Len(uses) - 1 :
              /\ uses[i].right_var = uses[i + 1].left_var
              /\ uses[i].right_labels = uses[i + 1].left_labels

\* ------------------------------------------------------------------------
\* Specification of the quote handling of the scanners: _strip_string_literals
\* on one side, the five scanners of normalize.py (which share their string and
\* backtick branches) on the other, applied to the same text
\* ------------------------------------------------------------------------
MaxQuoted == 4

QuotePieces == << <<"'">>, <<"\\">>, <<BT>>, <<"a">>, <<" ">> >>

RECURSIVE QuoteConcat(_)
QuoteConcat(ps) ==
    IF ps = <<>> THEN <<>> ELSE QuotePieces[Head(ps)] \o QuoteConcat(Tail(ps))

QuoteTexts ==
    UNION { { QuoteConcat(ps) : ps \in [1..n -> 1..Len(QuotePieces)] } : n \in 0..MaxQuoted }

\* the positions _strip_string_literals reads as part of a string literal: the
\* opening quote and every character read while in_string is set
StripPositions(text) ==
    { i \in 0..Len(text) - 1 :
        LET st == StripLoop(text, 0, i, [i |-> 0, in_string |-> FALSE,
                                         escape |-> FALSE, result |-> <<>>])
        IN  st.in_string \/ At(text, i) = "'" }

\* the positions a scanner of normalize.py reads as part of a string literal:
\* those its string branch consumes
RECURSIVE QuoteLoop(_, _, _)
QuoteLoop(text, st, inside) ==
    IF st.i >= Len(text) THEN inside
    ELSE LET char == At(text, st.i) IN
         IF InQuotes(st, char)
         THEN LET next == QuoteStep(text, st) IN
              QuoteLoop(text, next,
                        IF st.in_string \/ (~st.in_backtick /\ char = "'")
                        THEN inside \cup (st.i..next.i - 1) ELSE inside)
         ELSE QuoteLoop(text, [st EXCEPT !.i = st.i + 1], inside)

QuotePositions(text) ==
    QuoteLoop(text, [i |-> 0, in_string |-> FALSE, in_backtick |-> FALSE], {})

QuoteInit ==
    /\ scan \in { [text |-> t, stripped |-> Nothing, strip_inside |-> {},
                   quote_inside |-> Nothing] : t \in QuoteTexts }
    /\ norm = NormIdle
    /\ rule = RuleIdle
    /\ frames = Nothing
    /\ adk = Nothing /\ mcp = Nothing
    /\ ValIdle

StripStringLiterals ==
    /\ scan.stripped = Nothing
    /\ scan' = [scan EXCEPT !.stripped = Some(_strip_string_literals(scan.text)),
                            !.strip_inside = StripPositions(scan.text)]
    /\ UNCHANGED <<valvars, norm, rule, frames, adk, mcp>>

ScanQuotes ==
    /\ scan.quote_inside = Nothing
    /\ scan' = [scan EXCEPT !.quote_inside = Some(QuotePositions(scan.text))]
    /\ UNCHANGED <<valvars, norm, rule, frames, adk, mcp>>

QuoteNext == StripStringLiterals \/ ScanQuotes

SpecQuotes == QuoteInit /\ [][QuoteNext]_vars

\* C22: _strip_string_literals and the scanners of normalize.py read the same
\* positions of a text as part of a single-quoted string literal
C22_SameLiteralPositions ==
    (scan.stripped # Nothing /\ scan.quote_inside # Nothing) =>
        scan.strip_inside = scan.quote_inside[1]

\* ------------------------------------------------------------------------
\* Specification of _split_top_level_keyword(text, "WITH"), the call of
\* _parse_with_fallback, on texts put together from a few fragments
\* ------------------------------------------------------------------------
MaxSplit == 4

SplitPieces ==
    << Keyword.with, <<"w","i","t","h">>, <<" ">>, <<"(">>, <<")">>, <<"'">>, <<"a">>,
       <<SZ>> >>

RECURSIVE SplitConcat(_)
SplitConcat(ps) ==
    IF ps = <<>> THEN <<>> ELSE SplitPieces[Head(ps)] \o SplitConcat(Tail(ps))

SplitTexts ==
    UNION { { SplitConcat(ps) : ps \in [1..n -> 1..Len(SplitPieces)] } : n \in 0..MaxSplit }

SplitInit ==
    /\ scan \in { [text |-> t, keyword |-> Keyword.with, segments |-> Nothing] :
                    t \in SplitTexts }
    /\ norm = NormIdle
    /\ rule = RuleIdle
    /\ frames = Nothing
    /\ adk = Nothing /\ mcp = Nothing
    /\ ValIdle

SplitTopLevelKeyword ==
    /\ scan.segments = Nothing
    /\ scan' = [scan EXCEPT
                   !.segments = Some(_split_top_level_keyword(scan.text, scan.keyword))]
    /\ UNCHANGED <<valvars, norm, rule, frames, adk, mcp>>

SplitNext == SplitTopLevelKeyword

SpecSplit == SplitInit /\ [][SplitNext]_vars

\* the positions of a text outside string literals and backtick names at
\* which no parenthesis, bracket or brace is open; q is "string", "backtick" or
\* "none", d the numbers of open parentheses, brackets and braces
RECURSIVE TopLevel(_, _, _, _, _)
TopLevel(text, i, q, d, acc) ==
    IF i >= Len(text) THEN acc
    ELSE LET char == At(text, i) IN
         IF q = "string"
         THEN IF char = "'" /\ i + 1 < Len(text) /\ At(text, i + 1) = "'"
              THEN TopLevel(text, i + 2, q, d, acc)
              ELSE TopLevel(text, i + 1, IF char = "'" THEN "none" ELSE q, d, acc)
         ELSE IF q = "backtick"
         THEN TopLevel(text, i + 1, IF char = BT THEN "none" ELSE q, d, acc)
         ELSE IF char = "'" THEN TopLevel(text, i + 1, "string", d, acc)
         ELSE IF char = BT THEN TopLevel(text, i + 1, "backtick", d, acc)
         ELSE LET open == IF char = "(" THEN 1 ELSE IF char = "[" THEN 2
                          ELSE IF char = "{" THEN 3 ELSE 0
                  close == IF char = ")" THEN 1 ELSE IF char = "]" THEN 2
                           ELSE IF char = "}" THEN 3 ELSE 0
                  nd == [k \in 1..3 |-> IF k = open THEN d[k] + 1
                                        ELSE IF k = close /\ d[k] > 0 THEN d[k] - 1
                                        ELSE d[k]]
              IN  TopLevel(text, i + 1, q, nd,
                           IF nd = <<0, 0, 0>> THEN acc \cup {i} ELSE acc)

\* where the keyword stands in the text: written in any case, between word
\* boundaries, outside groups and quotes
KeywordOccurrences(text, keyword) ==
    { i \in TopLevel(text, 0, "none", <<0, 0, 0>>, {}) :
        /\ i + Len(keyword) <= Len(text)
        /\ \A k \in 1..Len(keyword) : ToUpper(text[i + k]) = ToUpper(keyword[k])
        /\ (i = 0 \/ ~isalnum(At(text, i - 1)))
        /\ (i + Len(keyword) >= Len(text) \/ ~isalnum(At(text, i + Len(keyword)))) }

\* the text between the occurrences
RECURSIVE SegmentsBetween(_, _, _, _)
SegmentsBetween(text, occurrences, start, length) ==
    IF occurrences = {} THEN <<Slice(text, start, Len(text))>>
    ELSE LET i == CHOOSE x \in occurrences : \A y \in occurrences : x <= y IN
         <<Slice(text, start, i)>>
            \o SegmentsBetween(text, occurrences \ {i}, i + length, length)

\* C23: _split_top_level_keyword returns the text between the occurrences of
\* the keyword written in any case between word boundaries, outside groups and
\* quotes: one segment more than there are occurrences, nothing removed but the
\* keyword, the segments joined with the matched spellings giving the text
C23_SplitsAtOccurrences ==
    scan.segments # Nothing =>
        scan.segments[1] = SegmentsBetween(scan.text,
                                           KeywordOccurrences(scan.text, scan.keyword),
                                           0, Len(scan.keyword))

\* ------------------------------------------------------------------------
\* Specification of _case_when_has_multiple_values on string-stripped texts
\* put together from a few fragments
\* ------------------------------------------------------------------------
MaxCase == 4

CasePieces ==
    << Keyword.when, Keyword.then, <<",">>, <<"(">>, <<")">>, <<" ">>, <<"x">> >>

RECURSIVE CaseConcat(_)
CaseConcat(ps) ==
    IF ps = <<>> THEN <<>> ELSE CasePieces[Head(ps)] \o CaseConcat(Tail(ps))

CaseTexts ==
    UNION { { CaseConcat(ps) : ps \in [1..n -> 1..Len(CasePieces)] } : n \in 0..MaxCase }

CaseInit ==
    /\ scan \in { [text |-> t, reported |-> Nothing] : t \in CaseTexts }
    /\ norm = NormIdle
    /\ rule = RuleIdle
    /\ frames = Nothing
    /\ adk = Nothing /\ mcp = Nothing
    /\ ValIdle

CaseWhenHasMultipleValues ==
    /\ scan.reported = Nothing
    /\ scan' = [scan EXCEPT !.reported = Some(_case_when_has_multiple_values(scan.text))]
    /\ UNCHANGED <<valvars, norm, rule, frames, adk, mcp>>

CaseNext == CaseWhenHasMultipleValues

SpecCase == CaseInit /\ [][CaseNext]_vars

\* the positions at which the word stands as a keyword of its own, outside
\* groups: written in any case, no letter, digit or underscore before or after
WordPositions(text, word) ==
    { i \in TopLevel(text, 0, "none", <<0, 0, 0>>, {}) :
        /\ i + Len(word) <= Len(text)
        /\ \A k \in 1..Len(word) : ToUpper(text[i + k]) = word[k]
        /\ (i = 0 \/ ~isword(At(text, i - 1)))
        /\ (i + Len(word) >= Len(text) \/ ~isword(At(text, i + Len(word)))) }

\* a WHEN keyword, a comma and the next THEN keyword, in this order, all
\* outside groups and with no other WHEN between the WHEN and the THEN
MultipleValues(text) ==
    LET whens == WordPositions(text, Keyword.when)
        thens == WordPositions(text, Keyword.then)
        top == TopLevel(text, 0, "none", <<0, 0, 0>>, {})
    IN  \E w \in whens, t \in thens :
            /\ w < t
            /\ \A x \in whens \cup thens : ~(w < x /\ x < t)
            /\ \E c \in top : w < c /\ c < t /\ At(text, c) = ","

\* C25: _case_when_has_multiple_values reports a text iff, outside groups, a
\* WHEN keyword is followed by a comma before its THEN keyword; the letters
\* WHEN or THEN inside a longer word cause no report
C25_ReportsCommaInWhen ==
    scan.reported # Nothing => (scan.reported[1] <=> MultipleValues(scan.text))

\* ------------------------------------------------------------------------
\* The segmented fallback of validate (_parse_with_fallback)
\* ------------------------------------------------------------------------
\* what a segment is parsed as: its text from the first statement-starting
\* keyword, without surrounding blanks and trailing semicolons, with RETURN 1
\* appended iff the segment has neither the word RETURN nor a write keyword;
\* Nothing for a segment without statement-starting keyword
Candidate(segment) ==
    LET starts == { i \in 0..Len(segment) : ClauseStartAt(segment, i) } IN
    IF starts = {} THEN Nothing
    ELSE LET first == CHOOSE i \in starts : \A k \in starts : i <= k
             body == strip(Slice(segment, first, Len(segment)))
             semis == { n \in 0..Len(body) :
                          \A k \in 1..n : body[Len(body) - n + k] = ";" }
             most == CHOOSE n \in semis : \A k \in semis : k <= n
             bare == SubSeq(body, 1, Len(body) - most)
             complete == \/ HasKeyword(segment, Keyword.return)
                         \/ \E keyword \in WriteClauseKeywords : HasKeyword(segment, keyword)
         IN  Some(IF complete THEN bare ELSE bare \o <<" ">> \o Keyword.return1)

\* the segments of each query and what each of them is parsed as
FallbackSegmentsOfQuery ==
    [q \in Queries |-> _split_top_level_keyword(NormalizedQuery[q], Keyword.with)]
CandidatesOfQuery ==
    [q \in Queries |-> [k \in 1..Len(FallbackSegmentsOfQuery[q]) |->
                           Candidate(FallbackSegmentsOfQuery[q][k])]]

\* the candidates of the first n segments, in order, skipped segments left out
RECURSIVE Candidates(_, _)
Candidates(cands, n) ==
    IF n = 0 THEN <<>> ELSE Candidates(cands, n - 1) \o cands[n]

\* C24: each segment is processed on its own: the parser is called, in segment
\* order, with the candidate of every segment that has a statement-starting
\* keyword, and the trees are those of the calls that succeeded, in this order,
\* whatever happened to the other segments
C24_SegmentsIndependent ==
    (\E k \in 1..Len(ran) : ran[k] = "fallback") =>
        LET all == FallbackSegmentsOfQuery[cypher]
            processed == Len(all) - Len(segments)
            calls == SubSeq(parse_log, 3, Len(parse_log))
            parsed == SelectSeq(calls, LAMBDA call : call.ok)
        IN  /\ segments = SubSeq(all, processed + 1, Len(all))
            /\ [k \in 1..Len(calls) |-> calls[k].text]
                  = Candidates(CandidatesOfQuery[cypher], processed)
            /\ [k \in 1..Len(asts) |-> asts[k].text] = [k \in 1..Len(parsed) |-> parsed[k].text]

\* two segments: the first one failed to parse after RETURN 1 was appended,
\* the second one, a write clause, parsed without its semicolon
C24_Witness ==
    /\ pc = "segment"
    /\ segments = <<>>
    /\ Len(parse_log) = 4
    /\ ~parse_log[3].ok
    /\ endswith(parse_log[3].text, Keyword.return1)
    /\ parse_log[4].ok
    /\ HasKeyword(parse_log[4].text, Keyword.set)
    /\ ~HasKeyword(parse_log[4].text, Keyword.return)
    /\ ~endswith(parse_log[4].text, <<";">>)
    /\ Len(asts) = 1

\* ------------------------------------------------------------------------
\* Specification of _find_compatibility_issues on two queries that parse and
\* differ only in the characters of a string literal:
\* RETURN f('...') with its tree, the literal having the same length in both
\* ------------------------------------------------------------------------
MaxLiteral == 2

LiteralChars == {"a", "-", ">", ":", "!"}

LiteralFunctions ==
    { <<"s","i","z","e">>, <<"e","x","i","s","t","s">>, <<"r","e","v","e","r","s","e">> }

\* the text and the tree of RETURN func('content')
LiteralQuery(func, content) ==
    LET invocation == func \o <<"(","'">> \o content \o <<"'",")">> IN
    [text |-> Keyword.return \o <<" ">> \o invocation,
     tree |-> Tree(<<>>, <<invocation>>)]

LiteralInit ==
    /\ scan \in UNION { { [first |-> LiteralQuery(func, c1),
                            second |-> LiteralQuery(func, c2),
                            issues |-> Nothing] :
                            func \in LiteralFunctions,
                            c1 \in [1..n -> LiteralChars],
                            c2 \in [1..n -> LiteralChars] } : n \in 0..MaxLiteral }
    /\ norm = NormIdle
    /\ rule = RuleIdle
    /\ frames = Nothing
    /\ adk = Nothing /\ mcp = Nothing
    /\ ValIdle

\* the compatibility check of validate on each of the two queries
FindCompatibilityIssues ==
    /\ scan.issues = Nothing
    /\ scan' = [scan EXCEPT !.issues =
                   Some(<< _find_compatibility_issues(scan.first.text, Some(scan.first.tree)),
                           _find_compatibility_issues(scan.second.text, Some(scan.second.tree)) >>)]
    /\ UNCHANGED <<valvars, norm, rule, frames, adk, mcp>>

LiteralNext == FindCompatibilityIssues

SpecLiterals == LiteralInit /\ [][LiteralNext]_vars

\* C30: two queries that differ only in the characters inside a string literal
\* get the same list of compatibility issues
C30_LiteralsIgnored ==
    scan.issues # Nothing => scan.issues[1][1] = scan.issues[1][2]

\* ------------------------------------------------------------------------
\* adk_translate.py: AdkCypherTranslator.translate_with_attempts and translate
\* ------------------------------------------------------------------------
\* the message of an outcome without error
DefaultError == <<"C","y","p","h","e","r"," ","t","r","a","n","s","l","a","t","i","o","n"," ","f","a","i","l","e","d"," ","a","f","t","e","r"," ","r","e","t","r","i","e","s">>

SchemaMismatchPrefix == <<"A","D","K"," ","o","u","t","p","u","t"," ","d","i","d"," ","n","o","t"," ","m","a","t","c","h"," ","s","c","h","e","m","a",":"," ">>

EmptyCypherError == <<"A","D","K"," ","r","e","t","u","r","n","e","d"," ","e","m","p","t","y"," ","C","y","p","h","e","r"," ","q","u","e","r","y">>

ContextLengthNeedles ==
    { <<"c","o","n","t","e","x","t","_","l","e","n","g","t","h","_","e","x","c","e","e","d","e","d">>, <<"c","o","n","t","e","x","t"," ","l","e","n","g","t","h">>, <<"i","n","p","u","t"," ","t","o","k","e","n","s"," ","e","x","c","e","e","d">>,
      <<"m","a","x","i","m","u","m"," ","c","o","n","t","e","x","t">> }

\* message is str(exc)
_is_context_length_error(message) ==
    \E needle \in ContextLengthNeedles : Contains(lower(message), needle)

_build_retry_prompt(base_prompt, failed_cypher, error) ==
    base_prompt
        \o <<"\n","\n","T","h","e"," ","p","r","e","v","i","o","u","s"," ","C","y","p","h","e","r"," ","f","a","i","l","e","d"," ","s","c","h","e","m","a"," ","v","a","l","i","d","a","t","i","o","n",".","\n","E","r","r","o","r",":"," ">> \o error
        \o <<"\n","P","r","e","v","i","o","u","s"," ","C","y","p","h","e","r",":","\n">> \o failed_cypher
        \o <<"\n","F","i","x"," ","t","h","e"," ","q","u","e","r","y"," ","t","o"," ","s","a","t","i","s","f","y"," ","t","h","e"," ","s","c","h","e","m","a"," ","a","n","d"," ","r","u","l","e","s","."," ","R","e","t","u","r","n"," ","o","n","l","y"," ","J","S","O","N"," ","w","i","t","h"," ","k","e","y","s",":"," ","c","y","p","h","e","r",","," ","o","p","t","i","o","n","a","l"," ","n","o","t","e","s",","," ","o","p","t","i","o","n","a","l"," ","c","o","n","f","i","d","e","n","c","e",".">>

\* a faulty variant: the attempts are numbered from 0
TranslationAttempt_from_zero(attempt, query, valid, error) ==
    [attempt |-> attempt - 1, cypher |-> query, valid |-> valid, error |-> error]

\* the dataclasses without their token usage; cypher and error are optional
TranslationAttempt(attempt, query, valid, error) ==
    [attempt |-> attempt, cypher |-> query, valid |-> valid, error |-> error]

TranslationOutcome(query, attempts, error) ==
    [cypher |-> query, attempts |-> attempts, error |-> error]

\* a faulty variant: the error of the first attempt is kept
KeepFirstError(last_error, error) == IF last_error = Nothing THEN Some(error) ELSE last_error

\* last_error = error
KeepLastError(last_error, error) == Some(error)

\* last_error or "Cypher translation failed after retries"
ErrorOrDefault(last_error) ==
    IF last_error = Nothing \/ last_error[1] = <<>> THEN DefaultError ELSE last_error[1]

\* what the environment can answer ---------------------------------------
MaxAttempts == 3

Question == <<"q","?">>

\* extract_prompt_text(prompt): no text, or the text of the MCP prompt
ExtractedPrompts == { <<>>, <<"p",":"," ","q","?">> }

\* str(exc) of what _run_agent raises: a context-length error of the provider,
\* its own ValueError, an exception without message
AgentErrors ==
    { <<"M","a","x","i","m","u","m"," ","c","o","n","t","e","x","t"," ","l","e","n","g","t","h"," ","i","s"," ","4","k">>, <<"A","D","K"," ","r","e","t","u","r","n","e","d"," ","n","o"," ","r","e","s","p","o","n","s","e"," ","c","o","n","t","e","n","t">>, <<>> }

\* what CypherTranslation.model_validate_json makes of the response: a
\* ValidationError with its text, or a translation with its cypher field
Responses ==
    { [json |-> FALSE, text |-> <<"1"," ","v","a","l","i","d","a","t","i","o","n"," ","e","r","r","o","r">>],
      [json |-> TRUE, text |-> <<" ">>],
      [json |-> TRUE, text |-> <<" ","R","E","T","U","R","N"," ","1"," ">>] }

\* _dump_response_text(...): None when ADK_RESPONSE_DUMP_DIR is not set or the
\* file cannot be written (its OSError is caught), the path of the file, or
\* the OSError of os.makedirs, which is called outside the try
DumpResults == { "None", "path", "OSError" }

\* str(exc) of a CypherValidationError of validator.validate
ValidationErrors == { <<"C","y","p","h","e","r"," ","s","c","h","e","m","a"," ","v","a","l","i","d","a","t","i","o","n"," ","f","a","i","l","e","d",":">> }

AdkInit ==
    /\ adk \in { [entry |-> entry, question |-> Question, use_mcp_prompt |-> use,
                  extracted |-> extracted, max_attempts |-> n, pc |-> "call",
                  prompt_text |-> <<>>, current_prompt |-> <<>>, attempt |-> 0,
                  attempts |-> <<>>, last_error |-> Nothing, outcome |-> Nothing,
                  result |-> Nothing, invocations |-> <<>>, failures |-> <<>>,
                  validated |-> <<>>, _runner |-> runner, _validator |-> validator,
                  _session_service |-> service, in_event_loop |-> in_loop] :
                    entry \in {"translate", "translate_with_attempts"},
                    use \in BOOLEAN, extracted \in ExtractedPrompts,
                    n \in 0..MaxAttempts, runner \in BOOLEAN, validator \in BOOLEAN,
                    service \in BOOLEAN, in_loop \in BOOLEAN }
    /\ adk.entry = "translate" => adk.max_attempts = 2
    \* _get_runner sets the session service together with the runner
    /\ adk._session_service => adk._runner
    /\ norm = NormIdle
    /\ rule = RuleIdle
    /\ frames = Nothing
    /\ scan = Nothing /\ mcp = Nothing
    /\ ValIdle

\* translate_with_attempts up to the for loop: the prompt, the runner (with
\* its session service) and the validator, each made unless already held
EnterLoop ==
    /\ adk.pc = "call"
    /\ LET prompt_text == IF adk.use_mcp_prompt /\ adk.extracted # <<>>
                          THEN adk.extracted ELSE adk.question
       IN  adk' = [adk EXCEPT !.prompt_text = prompt_text,
                              !.current_prompt = prompt_text,
                              !._session_service = IF adk._runner THEN @ ELSE TRUE,
                              !._runner = TRUE,
                              !._validator = TRUE,
                              !.attempt = 1,
                              !.pc = IF 1 <= adk.max_attempts THEN "loop" ELSE "exit"]
    /\ UNCHANGED <<valvars, norm, rule, frames, scan, mcp>>

\* the steps before the loop that can raise: mcp.get_prompt (an McpError of
\* the client), _get_runner (ImportError), the loading of the schema for a
\* validator not yet held (GraphSchema.load_from_mcp, which asks the server)
SetupSteps == <<"get_prompt", "_get_runner", "load_schema">>

\* translate_with_attempts left by an exception before the loop
SetupRaises ==
    /\ adk.pc = "call"
    /\ \E k \in 1..Len(SetupSteps) :
          LET step == SetupSteps[k] IN
          /\ step = "get_prompt" => adk.use_mcp_prompt
          /\ step = "_get_runner" => ~adk._runner
          /\ step = "load_schema" => ~adk._validator
          /\ adk' = [adk EXCEPT
                        !._session_service = IF step = "load_schema" /\ ~adk._runner
                                             THEN TRUE ELSE @,
                        !._runner = IF step = "load_schema" THEN TRUE ELSE @,
                        !.failures = Append(@, step),
                        !.pc = "raised"]
    /\ UNCHANGED <<valvars, norm, rule, frames, scan, mcp>>

\* _ensure_session: with a session service, _run_async raises RuntimeError
\* when the caller is inside a running event loop
SessionRefused == adk._session_service /\ adk.in_event_loop

\* an iteration left by the RuntimeError of _ensure_session, before the agent
\* is invoked
EnsureSessionRaises ==
    /\ adk.pc = "loop"
    /\ SessionRefused
    /\ adk' = [adk EXCEPT !.failures = Append(@, "_ensure_session"), !.pc = "raised"]
    /\ UNCHANGED <<valvars, norm, rule, frames, scan, mcp>>

\* an iteration in which _run_agent raises
AgentRaises ==
    /\ adk.pc = "loop"
    /\ ~SessionRefused
    /\ \E error \in AgentErrors :
          LET retry == /\ adk.attempt < adk.max_attempts
                       /\ _is_context_length_error(error)
                       /\ adk.use_mcp_prompt
                       /\ adk.current_prompt # adk.question
          IN  adk' = [adk EXCEPT
                         !.invocations = Append(@, adk.current_prompt),
                         !.failures = Append(@, "raised"),
                         !.last_error = KeepLastError(@, error),
                         !.attempts = Append(@, TranslationAttempt(adk.attempt, Nothing,
                                                                   FALSE, Some(error))),
                         !.current_prompt = IF retry THEN adk.question ELSE @,
                         !.attempt = IF retry THEN @ + 1 ELSE @,
                         !.pc = IF retry THEN "loop" ELSE "exit"]
    /\ UNCHANGED <<valvars, norm, rule, frames, scan, mcp>>

\* an iteration whose response is no translation, has an empty cypher or a
\* cypher that validator.validate rejects with a CypherValidationError. The
\* handler dumps the response before it records the attempt: an OSError of
\* the dump leaves translate_with_attempts, with last_error set and no
\* attempt recorded
OutputRejected ==
    /\ adk.pc = "loop"
    /\ ~SessionRefused
    /\ \E response \in Responses, rejection \in ValidationErrors, dump_path \in DumpResults :
          LET candidate == IF response.json THEN Some(strip(response.text)) ELSE Nothing
              error == IF ~response.json THEN SchemaMismatchPrefix \o response.text
                       ELSE IF candidate[1] = <<>> THEN EmptyCypherError
                       ELSE rejection
              again == adk.attempt < adk.max_attempts
              validated == IF candidate # Nothing /\ candidate[1] # <<>>
                           THEN Append(adk.validated, [attempt |-> adk.attempt,
                                                       cypher |-> candidate[1],
                                                       accepted |-> FALSE])
                           ELSE adk.validated
          IN  IF dump_path = "OSError"
              THEN adk' = [adk EXCEPT
                              !.invocations = Append(@, adk.current_prompt),
                              !.failures = Append(@, "dump_raised"),
                              !.validated = validated,
                              !.last_error = KeepLastError(@, error),
                              !.pc = "raised"]
              ELSE adk' = [adk EXCEPT
                         !.invocations = Append(@, adk.current_prompt),
                         !.failures = Append(@, "rejected"),
                         !.validated = validated,
                         !.last_error = KeepLastError(@, error),
                         !.attempts = Append(@, TranslationAttempt(adk.attempt, candidate,
                                                                   FALSE, Some(error))),
                         !.current_prompt =
                             IF again
                             THEN _build_retry_prompt(adk.prompt_text,
                                                      IF candidate = Nothing THEN <<>>
                                                      ELSE candidate[1],
                                                      error)
                             ELSE @,
                         !.attempt = IF again THEN @ + 1 ELSE @,
                         !.pc = IF again THEN "loop" ELSE "exit"]
    /\ UNCHANGED <<valvars, norm, rule, frames, scan, mcp>>

\* an iteration whose cypher validator.validate accepts: the outcome is returned
OutputAccepted ==
    /\ adk.pc = "loop"
    /\ ~SessionRefused
    /\ \E response \in Responses :
          /\ response.json
          /\ strip(response.text) # <<>>
          /\ LET candidate == strip(response.text)
                 attempts == Append(adk.attempts,
                                    TranslationAttempt(adk.attempt, Some(candidate), TRUE, Nothing))
             IN  adk' = [adk EXCEPT
                            !.invocations = Append(@, adk.current_prompt),
                            !.failures = Append(@, "valid"),
                            !.validated = Append(@, [attempt |-> adk.attempt,
                                                     cypher |-> candidate,
                                                     accepted |-> TRUE]),
                            !.attempts = attempts,
                            !.outcome = Some(TranslationOutcome(Some(candidate), attempts, Nothing)),
                            !.pc = "returned"]
    /\ UNCHANGED <<valvars, norm, rule, frames, scan, mcp>>

\* an iteration in which validator.validate raises something that is no
\* ValueError (its RecursionError): the exception leaves translate_with_attempts
ValidatePropagates ==
    /\ adk.pc = "loop"
    /\ ~SessionRefused
    /\ \E response \in Responses :
          /\ response.json
          /\ strip(response.text) # <<>>
          /\ adk' = [adk EXCEPT
                        !.invocations = Append(@, adk.current_prompt),
                        !.failures = Append(@, "propagated"),
                        !.pc = "raised"]
    /\ UNCHANGED <<valvars, norm, rule, frames, scan, mcp>>

\* after the loop: the outcome without cypher
ReturnFailure ==
    /\ adk.pc = "exit"
    /\ adk' = [adk EXCEPT
                  !.outcome = Some(TranslationOutcome(Nothing, adk.attempts,
                                                      Some(ErrorOrDefault(adk.last_error)))),
                  !.pc = "returned"]
    /\ UNCHANGED <<valvars, norm, rule, frames, scan, mcp>>

\* translate: the CypherQuery of the outcome, or a ValueError
Translate ==
    /\ adk.pc = "returned"
    /\ adk.entry = "translate"
    /\ adk' = [adk EXCEPT
                  !.result =
                      IF adk.outcome[1].cypher = Nothing
                      THEN Some([kind |-> "ValueError",
                                 text |-> ErrorOrDefault(adk.outcome[1].error)])
                      ELSE Some([kind |-> "CypherQuery", text |-> adk.outcome[1].cypher[1]]),
                  !.pc = "done"]
    /\ UNCHANGED <<valvars, norm, rule, frames, scan, mcp>>

AdkNext ==
    \/ EnterLoop
    \/ SetupRaises
    \/ EnsureSessionRaises
    \/ AgentRaises
    \/ OutputRejected
    \/ OutputAccepted
    \/ ValidatePropagates
    \/ ReturnFailure
    \/ Translate

SpecTranslate == AdkInit /\ [][AdkNext]_vars


\* C27: translate_with_attempts invokes the model at most max_attempts times
\* and records one TranslationAttempt per invocation, numbered 1, 2, ...; only
\* the last recorded attempt can be valid, and nothing is invoked after it;
\* the cypher of the outcome is present exactly when the last recorded attempt
\* is valid, and it is then the string validator.validate accepted in that
\* attempt; translate returns that same string.
C27_OneAttemptPerInvocation ==
    /\ Len(adk.invocations) <= adk.max_attempts
    /\ adk.pc # "raised" => Len(adk.attempts) = Len(adk.invocations)
    /\ \A i \in 1..Len(adk.attempts) :
          /\ adk.attempts[i].attempt = i
          /\ adk.attempts[i].valid =>
                /\ i = Len(adk.attempts)
                /\ adk.pc \in {"returned", "done"}
    /\ adk.outcome # Nothing =>
          LET outcome_ == adk.outcome[1]
              n == Len(outcome_.attempts)
          IN  /\ outcome_.attempts = adk.attempts
              /\ (outcome_.cypher # Nothing) <=> (n > 0 /\ outcome_.attempts[n].valid)
              /\ outcome_.cypher # Nothing =>
                    /\ outcome_.attempts[n].cypher = outcome_.cypher
                    /\ \E k \in 1..Len(adk.validated) :
                          /\ adk.validated[k].attempt = n
                          /\ adk.validated[k].cypher = outcome_.cypher[1]
                          /\ adk.validated[k].accepted
                    /\ \A k \in 1..Len(adk.validated) :
                          adk.validated[k].attempt = n => adk.validated[k].accepted
    /\ (adk.result # Nothing /\ adk.result[1].kind = "CypherQuery") =>
          /\ adk.outcome[1].cypher # Nothing
          /\ adk.result[1].text = adk.outcome[1].cypher[1]

\* a query is returned by the third invocation after two failed ones
C27_Witness ==
    /\ adk.pc = "returned"
    /\ adk.outcome # Nothing
    /\ adk.outcome[1].cypher # Nothing
    /\ Len(adk.attempts) = 3
    /\ Len(adk.invocations) = 3
    /\ ~adk.attempts[1].valid
    /\ ~adk.attempts[2].valid


\* what follows the failed iteration i: recorded as invocation i + 1, or about
\* to be made
NextPromptIs(i, prompt) ==
    IF i < Len(adk.invocations)
    THEN adk.invocations[i + 1] = prompt
    ELSE adk.pc = "loop" /\ adk.attempt = i + 1 /\ adk.current_prompt = prompt

LoopEndedAfter(i) ==
    /\ i = Len(adk.invocations)
    /\ adk.pc \in {"exit", "returned", "done"}

\* the call was left by an exception in iteration i, which recorded no attempt
RaisedIn(i) ==
    /\ i = Len(adk.invocations)
    /\ Len(adk.attempts) = i - 1
    /\ adk.pc = "raised"

\* after every output that failed validation with attempts remaining the
\* model is invoked again
AlwaysRetried ==
    \A i \in 1..Len(adk.invocations) :
        (adk.failures[i] \in {"rejected", "dump_raised"} /\ i < adk.max_attempts) =>
            \/ i < Len(adk.invocations)
            \/ adk.pc = "loop" /\ adk.attempt = i + 1

\* an output that failed validation is followed by nothing when the dump of
\* the response raised: no attempt is recorded and the exception leaves the call
DumpRaisedEnds ==
    \A i \in 1..Len(adk.invocations) :
        adk.failures[i] = "dump_raised" => RaisedIn(i)

\* the retry rules of the loop, iteration by iteration
RetryRules ==
    \A i \in 1..Len(adk.attempts) :
        LET failed == adk.attempts[i]
            remaining == i < adk.max_attempts
        IN  /\ (adk.failures[i] = "rejected" /\ remaining) =>
                  NextPromptIs(i, _build_retry_prompt(
                                      adk.prompt_text,
                                      IF failed.cypher = Nothing THEN <<>> ELSE failed.cypher[1],
                                      failed.error[1]))
            /\ (adk.failures[i] = "raised" /\ remaining) =>
                  IF /\ _is_context_length_error(failed.error[1])
                     /\ adk.use_mcp_prompt
                     /\ adk.invocations[i] # adk.question
                  THEN NextPromptIs(i, adk.question)
                  ELSE LoopEndedAfter(i)
            /\ (adk.failures[i] # "valid" /\ ~remaining) => LoopEndedAfter(i)

FailedOutcome ==
    /\ adk.outcome # Nothing
    /\ adk.outcome[1].cypher = Nothing

\* C28 as stated: the retry rules, a next attempt after every output that
\* failed validation with attempts remaining, and the error of a failed
\* outcome is the error of its last attempt.
C28_ErrorOfLastAttempt ==
    /\ RetryRules
    /\ AlwaysRetried
    /\ (FailedOutcome /\ Len(adk.attempts) > 0) =>
          adk.outcome[1].error = adk.attempts[Len(adk.attempts)].error

\* C28, amended: after a rejected output with attempts remaining the next
\* prompt is the retry prompt built from the base prompt, the failed cypher and
\* the error; after a raising invocation with attempts remaining the next
\* prompt is the raw question if the error is a context-length error, the MCP
\* prompt is in use and the prompt differs from the question, and otherwise
\* the loop ends; an output that failed validation is followed by no attempt
\* when the dump of the response raises, which ends the call with that
\* exception and without recording the attempt; the error of a failed outcome
\* is the error of its last attempt, or the fixed message when that error is
\* empty or there was no attempt.
C28_RetryRulesAndError ==
    /\ RetryRules
    /\ DumpRaisedEnds
    /\ FailedOutcome =>
          LET n == Len(adk.attempts)
          IN  adk.outcome[1].error =
                 IF n = 0 \/ adk.attempts[n].error[1] = <<>>
                 THEN Some(DefaultError)
                 ELSE adk.attempts[n].error

\* a rejected output was retried with the retry prompt, the retry raised an
\* exception without message, and the outcome carries the fixed message
C28_Witness ==
    /\ FailedOutcome
    /\ Len(adk.attempts) = 2
    /\ adk.failures[1] = "rejected"
    /\ adk.failures[2] = "raised"
    /\ adk.invocations[2] # adk.invocations[1]
    /\ adk.attempts[2].error = Some(<<>>)
    /\ adk.outcome[1].error = Some(DefaultError)


\* ------------------------------------------------------------------------
\* mcp_client.py: StreamableHttpMcpClient
\* ------------------------------------------------------------------------
MaxCalls == 2

ClientCalls == {"list_tools", "list_prompts", "get_prompt", "call_tool"}

RpcMethod(call) ==
    CASE call = "initialize" -> "initialize"
      [] call = "list_tools" -> "tools/list"
      [] call = "list_prompts" -> "prompts/list"
      [] call = "get_prompt" -> "prompts/get"
      [] call = "call_tool" -> "tools/call"

\* what the server can answer to one POST --------------------------------
\* status 0 stands for a request that httpx could not deliver
Statuses == {0, 200, 202, 204, 500}

\* the mcp-session-id header of the response; "" when it is absent
SessionHeaders == {"", "s1", "s2"}

\* a JSON-RPC message of the response: its id, its error member ("none",
\* "object", "other") and its result member ("none", "object", "invalid_list"
\* for an object whose tools/prompts member is no list, "other")
Message(id, error, result) == [id |-> id, error |-> error, result |-> result]

Bodies(request_id) ==
    { <<>>,
      <<Message(request_id, "none", "object")>>,
      <<Message(request_id, "none", "invalid_list")>>,
      <<Message(request_id, "none", "other")>>,
      <<Message(request_id, "none", "none")>>,
      <<Message(request_id, "object", "none")>>,
      <<Message(request_id, "other", "object")>>,
      <<Message(0, "none", "object")>>,
      <<Message(0, "none", "object"), Message(request_id, "none", "object")>> }

\* is_object: the JSON body is an object (it is then the one message); a
\* response without success status carries no body that is read
Replies(request_id) ==
    { [status |-> status, session |-> session, content_type |-> "text/html",
       is_object |-> FALSE, messages |-> <<>>] :
         status \in Statuses, session \in SessionHeaders }
    \cup
    { [status |-> 200, session |-> session, content_type |-> "text/event-stream",
       is_object |-> FALSE, messages |-> messages] :
         session \in SessionHeaders, messages \in Bodies(request_id) }
    \cup
    { [status |-> 200, session |-> session, content_type |-> "application/json",
       is_object |-> TRUE, messages |-> messages] :
         session \in SessionHeaders,
         messages \in { body \in Bodies(request_id) : Len(body) = 1 } }
    \cup
    { [status |-> 200, session |-> session, content_type |-> "application/json",
       is_object |-> FALSE, messages |-> <<>>] : session \in SessionHeaders }

\* a faulty variant: the session id follows the latest response
CaptureSession_latest(session_id, header) ==
    IF header # "" THEN Some(header) ELSE session_id

\* if session_id and self._session_id is None: self._session_id = session_id
CaptureSession(session_id, header) ==
    IF header # "" /\ session_id = Nothing THEN Some(header) ELSE session_id

\* _post_message: whether it raises, the session id afterwards, the messages
_post_message(session_id, reply) ==
    IF reply.status = 0 \/ reply.status >= 400
    THEN [raised |-> TRUE, session_id |-> session_id, responses |-> <<>>]
    ELSE IF reply.status \in {202, 204}
    THEN [raised |-> FALSE, session_id |-> session_id, responses |-> <<>>]
    ELSE LET captured == CaptureSession(session_id, reply.session)
         IN  CASE reply.content_type = "text/event-stream" ->
                    [raised |-> reply.messages = <<>>, session_id |-> captured,
                     responses |-> reply.messages]
               [] reply.content_type = "application/json" ->
                    IF reply.is_object /\ Len(reply.messages) >= 1
                    THEN [raised |-> FALSE, session_id |-> captured,
                          responses |-> <<reply.messages[1]>>]
                    ELSE [raised |-> TRUE, session_id |-> captured, responses |-> <<>>]
               [] OTHER ->
                    [raised |-> TRUE, session_id |-> captured, responses |-> <<>>]

RECURSIVE _pick_response(_, _)
_pick_response(responses, request_id) ==
    IF responses = <<>> THEN Nothing
    ELSE IF responses[1].id = request_id THEN Some(responses[1])
    ELSE _pick_response(Tail(responses), request_id)

\* _request after its POST: the result member, or an exception
_request(posted_, request_id) ==
    LET response == _pick_response(posted_.responses, request_id)
    IN  IF posted_.raised \/ response = Nothing THEN [raised |-> TRUE, result |-> "none"]
        ELSE IF response[1].error # "none" THEN [raised |-> TRUE, result |-> "none"]
        ELSE IF response[1].result = "none" THEN [raised |-> TRUE, result |-> "none"]
        ELSE [raised |-> FALSE, result |-> response[1].result]

\* isinstance(result, dict)
IsObject(result) == result \in {"object", "invalid_list"}

\* the object a server returns for request request_id
ResultOf(request_id) == [result_of |-> request_id]

\* one entry of the history of POSTs
Posted(call, method, id, sent, after, ok) ==
    [call |-> call, method |-> method, id |-> id, session_sent |-> sent,
     session_after |-> after, ok |-> ok]

\* one entry of the history of calls on the client
Returned(call, method, value) ==
    [call |-> call, method |-> method, raised |-> FALSE, value |-> Some(value)]

Raised(call, method) ==
    [call |-> call, method |-> method, raised |-> TRUE, value |-> Nothing]

McpInit ==
    /\ mcp = [pc |-> "idle", origin |-> "", calls |-> 0,
              _initialized |-> FALSE, _server_info |-> Nothing,
              _session_id |-> Nothing, _id_counter |-> 1,
              posted |-> <<>>, results |-> <<>>]
    /\ norm = NormIdle
    /\ rule = RuleIdle
    /\ frames = Nothing
    /\ scan = Nothing /\ adk = Nothing
    /\ ValIdle

\* initialize(): the cached server info, or on to the initialize request
Initialize ==
    /\ mcp.pc = "idle"
    /\ mcp.calls < MaxCalls
    /\ IF mcp._initialized /\ mcp._server_info # Nothing
       THEN mcp' = [mcp EXCEPT !.calls = @ + 1,
                               !.results = Append(@, Returned(mcp.calls + 1, "initialize",
                                                              mcp._server_info[1]))]
       ELSE mcp' = [mcp EXCEPT !.calls = @ + 1, !.origin = "initialize",
                               !.pc = "initialize"]
    /\ UNCHANGED <<valvars, norm, rule, frames, scan, adk>>

\* list_tools, list_prompts, get_prompt, call_tool up to their first POST:
\* _ensure_initialized
EnsureInitialized ==
    /\ mcp.pc = "idle"
    /\ mcp.calls < MaxCalls
    /\ \E call \in ClientCalls :
          mcp' = [mcp EXCEPT !.calls = @ + 1, !.origin = call,
                             !.pc = IF ~mcp._initialized THEN "initialize" ELSE "request"]
    /\ UNCHANGED <<valvars, norm, rule, frames, scan, adk>>

\* initialize() from its request to the assignment of _initialized
PostInitialize ==
    /\ mcp.pc = "initialize"
    /\ LET request_id == mcp._id_counter
       IN  \E reply \in Replies(request_id) :
              LET posted_ == _post_message(mcp._session_id, reply)
                  answer == _request(posted_, request_id)
                  ok == ~answer.raised /\ IsObject(answer.result)
                  entry == Posted(mcp.calls, "initialize", Some(request_id),
                                  mcp._session_id, posted_.session_id, ok)
              IN  mcp' = [mcp EXCEPT
                             !._id_counter = @ + 1,
                             !._session_id = posted_.session_id,
                             !.posted = Append(@, entry),
                             !._server_info = IF ok THEN Some(ResultOf(request_id)) ELSE @,
                             !._initialized = IF ok THEN TRUE ELSE @,
                             !.results = IF ok THEN @
                                         ELSE Append(@, Raised(mcp.calls, mcp.origin)),
                             !.pc = IF ok THEN "notify" ELSE "idle"]
    /\ UNCHANGED <<valvars, norm, rule, frames, scan, adk>>

\* _notify_initialized and the return of initialize()
NotifyInitialized ==
    /\ mcp.pc = "notify"
    /\ \E reply \in Replies(0) :
          LET posted_ == _post_message(mcp._session_id, reply)
              entry == Posted(mcp.calls, "notifications/initialized", Nothing,
                              mcp._session_id, posted_.session_id, ~posted_.raised)
          IN  mcp' = [mcp EXCEPT
                         !._session_id = posted_.session_id,
                         !.posted = Append(@, entry),
                         !.results =
                             IF posted_.raised THEN Append(@, Raised(mcp.calls, mcp.origin))
                             ELSE IF mcp.origin = "initialize"
                             THEN Append(@, Returned(mcp.calls, "initialize",
                                                     mcp._server_info[1]))
                             ELSE @,
                         !.pc = IF posted_.raised \/ mcp.origin = "initialize"
                                THEN "idle" ELSE "request"]
    /\ UNCHANGED <<valvars, norm, rule, frames, scan, adk>>

\* list_tools, list_prompts, get_prompt, call_tool from their request on
PostRequest ==
    /\ mcp.pc = "request"
    /\ LET request_id == mcp._id_counter
       IN  \E reply \in Replies(request_id) :
              LET posted_ == _post_message(mcp._session_id, reply)
                  answer == _request(posted_, request_id)
                  ok == /\ ~answer.raised
                        /\ IsObject(answer.result)
                        /\ (mcp.origin \in {"list_tools", "list_prompts"} =>
                               answer.result # "invalid_list")
                  entry == Posted(mcp.calls, RpcMethod(mcp.origin), Some(request_id),
                                  mcp._session_id, posted_.session_id, ok)
              IN  mcp' = [mcp EXCEPT
                             !._id_counter = @ + 1,
                             !._session_id = posted_.session_id,
                             !.posted = Append(@, entry),
                             !.results = IF ok
                                         THEN Append(@, Returned(mcp.calls, mcp.origin,
                                                                 ResultOf(request_id)))
                                         ELSE Append(@, Raised(mcp.calls, mcp.origin)),
                             !.pc = "idle"]
    /\ UNCHANGED <<valvars, norm, rule, frames, scan, adk>>

McpNext ==
    \/ Initialize
    \/ EnsureInitialized
    \/ PostInitialize
    \/ NotifyInitialized
    \/ PostRequest

SpecMcp == McpInit /\ [][McpNext]_vars


\* the positions of the history at which an initialize request returned an
\* object result
Handshakes ==
    { j \in 1..Len(mcp.posted) :
         mcp.posted[j].method = "initialize" /\ mcp.posted[j].ok }

\* nothing but initialize is posted before an initialize request has succeeded
NothingBeforeHandshake ==
    \A k \in 1..Len(mcp.posted) :
        mcp.posted[k].method # "initialize" => \E j \in Handshakes : j < k

\* after the handshake the notification is posted once, at once, and no
\* initialize request follows
NotifiedOnce ==
    \A j \in Handshakes :
        /\ \A k \in 1..Len(mcp.posted) : k > j => mcp.posted[k].method # "initialize"
        /\ IF j = Len(mcp.posted) THEN mcp.pc = "notify"
           ELSE mcp.posted[j + 1].method = "notifications/initialized"
        /\ Cardinality({ k \in 1..Len(mcp.posted) :
                            mcp.posted[k].method = "notifications/initialized" })
              = (IF j = Len(mcp.posted) THEN 0 ELSE 1)

\* an initialize() call made after the handshake posts nothing and returns the
\* server info of the handshake
CachedServerInfo ==
    \A r \in 1..Len(mcp.results), j \in Handshakes :
        (mcp.results[r].method = "initialize" /\ mcp.posted[j].call < mcp.results[r].call) =>
            /\ ~mcp.results[r].raised
            /\ mcp.results[r].value = Some(ResultOf(mcp.posted[j].id[1]))
            /\ \A k \in 1..Len(mcp.posted) : mcp.posted[k].call # mcp.results[r].call

\* the calls that raised because their initialize request returned no object
\* result
FailedInitializeRequests ==
    { r \in 1..Len(mcp.results) :
         /\ mcp.results[r].raised
         /\ \E k \in 1..Len(mcp.posted) : mcp.posted[k].call = mcp.results[r].call
         /\ \A k \in 1..Len(mcp.posted) :
               mcp.posted[k].call = mcp.results[r].call =>
                   mcp.posted[k].method = "initialize" /\ ~mcp.posted[k].ok }

\* after the failed calls of the set the client is uninitialized and whatever
\* call comes next starts with an initialize request
RetriedAfter(failed) ==
    \A r \in failed :
        LET c == mcp.results[r].call
        IN  /\ (mcp.calls = c /\ mcp.pc = "idle") => ~mcp._initialized
            /\ \A k \in 1..Len(mcp.posted) :
                  (mcp.posted[k].call = c + 1 /\ (k = 1 \/ mcp.posted[k - 1].call = c)) =>
                      mcp.posted[k].method = "initialize"

RequestIdsIncrease ==
    /\ \A j, k \in 1..Len(mcp.posted) :
          (j < k /\ mcp.posted[j].id # Nothing /\ mcp.posted[k].id # Nothing) =>
              mcp.posted[j].id[1] < mcp.posted[k].id[1]
    /\ \A k \in 1..Len(mcp.posted) :
          mcp.posted[k].id # Nothing => mcp.posted[k].id[1] < mcp._id_counter

\* once captured, the session id is sent on every later message and kept
SessionIdKept ==
    /\ \A j, k \in 1..Len(mcp.posted) :
          (j < k /\ mcp.posted[j].session_after # Nothing) =>
              /\ mcp.posted[k].session_sent = mcp.posted[j].session_after
              /\ mcp.posted[k].session_after = mcp.posted[j].session_after
    /\ \A k \in 1..Len(mcp.posted) :
          /\ mcp.posted[k].session_sent =
                (IF k = 1 THEN Nothing ELSE mcp.posted[k - 1].session_after)
          /\ k = Len(mcp.posted) => mcp._session_id = mcp.posted[k].session_after

\* C29: nothing but initialize is posted before an initialize request has
\* returned an object; after it the notification is posted exactly once and
\* initialize never again, later initialize() calls returning the cached
\* server info; after a failed initialize request the client is uninitialized
\* and the next call starts with initialize again; request ids increase
\* strictly; the session id, once captured, is sent on every later message and
\* never replaced.
C29_Handshake ==
    /\ NothingBeforeHandshake
    /\ NotifiedOnce
    /\ CachedServerInfo
    /\ RetriedAfter(FailedInitializeRequests)
    /\ RequestIdsIncrease
    /\ SessionIdKept

\* a list call whose initialize request failed is followed by a call that
\* initializes, captures the session id from the initialize response, notifies
\* and posts its request with that session id
C29_Witness ==
    /\ mcp.pc = "idle"
    /\ Len(mcp.posted) = 4
    /\ mcp.posted[1].method = "initialize" /\ ~mcp.posted[1].ok
    /\ mcp.posted[1].call = 1
    /\ mcp.posted[2].method = "initialize" /\ mcp.posted[2].ok
    /\ mcp.posted[2].session_after = Some("s1")
    /\ mcp.posted[3].method = "notifications/initialized"
    /\ mcp.posted[4].method = "tools/call"
    /\ mcp.posted[4].session_sent = Some("s1")
    /\ mcp._initialized

====
